---- MODULE Spec2Model ----
(***************************************************************************)
(* The bulk activity import pipeline of imptracker (uploads/views.py):     *)
(* stage -> review -> commit, over the Django models Activity, Funder,     *)
(* Cluster, ActivityStatus, AuditLog and UploadBatch.                      *)
(*                                                                         *)
(* Text is a sequence of one-character strings.  A pandas cell is such a   *)
(* text, or one of the two markers NaN (an empty cell) and None (row.get   *)
(* of a column the file does not have).                                    *)
(***************************************************************************)
EXTENDS Integers, Sequences, FiniteSets, TLC

\* ------------------------------------------------------------------ text

NaN == <<"NaN">>
None == <<"None">>
NBSP == "nbsp"

UpperChars == <<"A", "B", "C", "D", "E", "F", "G", "I", "L", "M", "N", "O", "P", "R", "S", "T", "U", "X">>
LowerChars == <<"a", "b", "c", "d", "e", "f", "g", "i", "l", "m", "n", "o", "p", "r", "s", "t", "u", "x">>
Digits == <<"0", "1", "2", "3", "4", "5", "6", "7", "8", "9">>

\* str(val): the text pandas cells and markers print as
str(val) ==
    IF val = NaN THEN <<"n", "a", "n">>
    ELSE IF val = None THEN <<"N", "o", "n", "e">>
    ELSE val

UpperSet == {UpperChars[i] : i \in 1..Len(UpperChars)}
LowerSet == {LowerChars[i] : i \in 1..Len(LowerChars)}
DigitSet == {Digits[i] : i \in 1..Len(Digits)}

to_lower == [c \in UpperSet |-> LowerChars[CHOOSE i \in 1..Len(UpperChars) : UpperChars[i] = c]]
to_upper == [c \in LowerSet |-> UpperChars[CHOOSE i \in 1..Len(LowerChars) : LowerChars[i] = c]]
to_digit == [c \in DigitSet |-> (CHOOSE i \in 1..Len(Digits) : Digits[i] = c) - 1]

lower_ch(c) == IF c \in UpperSet THEN to_lower[c] ELSE c
upper_ch(c) == IF c \in LowerSet THEN to_upper[c] ELSE c

lower(s) == [i \in 1..Len(s) |-> lower_ch(s[i])]
upper(s) == [i \in 1..Len(s) |-> upper_ch(s[i])]

is_space(c) == c \in {" ", NBSP}
is_digit(c) == c \in DigitSet
digit_value(c) == to_digit[c]
isalnum(c) == c \in DigitSet \/ c \in UpperSet \/ c \in LowerSet

\* s[:n]
take(s, n) == SubSeq(s, 1, IF Len(s) < n THEN Len(s) ELSE n)

RECURSIVE lstrip(_)
lstrip(s) == IF s # <<>> /\ is_space(Head(s)) THEN lstrip(Tail(s)) ELSE s

RECURSIVE rstrip(_)
rstrip(s) ==
    IF s # <<>> /\ is_space(s[Len(s)]) THEN rstrip(SubSeq(s, 1, Len(s) - 1)) ELSE s

strip(s) == rstrip(lstrip(s))

\* s with every character of the set cs removed: .replace(c, '')
remove_chars(s, cs) == SelectSeq(s, LAMBDA c : c \notin cs)

\* ''.join(ch for ch in s if ch.isalnum())
only_alnum(s) == SelectSeq(s, isalnum)

\* needle in hay (the LIKE %needle% of icontains, after case folding)
contains(hay, needle) ==
    \E i \in 1..(Len(hay) - Len(needle) + 1) :
        SubSeq(hay, i, i + Len(needle) - 1) = needle

iexact(a, b) == lower(a) = lower(b)
icontains(hay, needle) == contains(lower(hay), lower(needle))

\* re.split('[,&;]', s): the pieces between separators, empty ones included
RECURSIVE re_split(_, _)
re_split(s, cur) ==
    IF s = <<>> THEN <<cur>>
    ELSE IF Head(s) \in {",", "&", ";"} THEN <<cur>> \o re_split(Tail(s), <<>>)
    ELSE re_split(Tail(s), Append(cur, Head(s)))

\* ' '.join(s.split()): runs of whitespace collapsed to one space, ends trimmed
RECURSIVE join_split(_, _)
join_split(s, gap) ==
    IF s = <<>> THEN <<>>
    ELSE IF is_space(Head(s)) THEN join_split(Tail(s), TRUE)
    ELSE (IF gap THEN <<" ">> ELSE <<>>) \o <<Head(s)>> \o join_split(Tail(s), FALSE)

is_blank(val) ==
    \/ val = None
    \/ val = NaN
    \/ strip(str(val)) = <<>>
    \/ lower(strip(str(val))) \in {<<"n", "a", "n">>, <<"n", "o", "n", "e">>}

normalize_text(val) ==
    IF val = None THEN <<>>
    ELSE join_split(lstrip(str(val)), FALSE)

normalize_key(val) == lower(normalize_text(val))

\* Python truthiness of a cell: None and '' are falsy, NaN is a non-zero float
truthy(val) == val # None /\ val # <<>>

\* pd.notna
notna(val) == val # NaN /\ val # None

\* the parts of a multi-valued Cluster / Funder cell
cell_parts(val) ==
    LET pieces == re_split(str(val), <<>>)
    IN  SelectSeq([i \in 1..Len(pieces) |-> strip(pieces[i])],
                  LAMBDA p : p # <<>> /\ ~is_blank(p))

\* ------------------------------------------------------ value parsing

\* A Planned Implementation Month cell: k is "nan" (empty cell), "none" (the file
\* has no such column), "mon_yy" ('Aug-26'), "mon_yyyy" ('Aug-2026'), "date"
\* ('2026-08-15') or "text" (anything no parser accepts).
PlannedCell(k, yr, mon, day) == [k |-> k, yr |-> yr, mon |-> mon, day |-> day]
PlannedNaN == PlannedCell("nan", 0, 0, 0)
PlannedNone == PlannedCell("none", 0, 0, 0)
PlannedText == PlannedCell("text", 0, 0, 0)

NoDate == [ok |-> FALSE, y |-> 0, m |-> 0, d |-> 0]
Date(y, m, d) == [ok |-> TRUE, y |-> y, m |-> m, d |-> d]

\* faulty variant: every fourth year is a leap year
isleap_every_fourth(y) == y % 4 = 0

isleap(y) == y % 4 = 0 /\ (y % 100 # 0 \/ y % 400 = 0)

\* calendar.monthrange(y, m)[1]
monthrange(y, m) ==
    IF m = 2 THEN (IF isleap(y) THEN 29 ELSE 28)
    ELSE IF m \in {4, 6, 9, 11} THEN 30
    ELSE 31

\* strptime's %y: 69..99 are 19xx, 0..68 are 20xx
century(yy) == IF yy >= 69 THEN 1900 + yy ELSE 2000 + yy

parse_planned_month(value) ==
    IF value.k = "mon_yy" THEN Date(century(value.yr), value.mon, monthrange(century(value.yr), value.mon))
    ELSE IF value.k \in {"mon_yyyy", "date"} THEN Date(value.yr, value.mon, monthrange(value.yr, value.mon))
    ELSE NoDate

\* `if planned:` - None is falsy; NaN and every non-empty text are truthy
planned_truthy(value) == value.k # "none"

\* float(text) for the texts modelled: digits, with an optional leading minus
RECURSIVE digits_value(_, _)
digits_value(s, acc) ==
    IF s = <<>> THEN acc ELSE digits_value(Tail(s), acc * 10 + digit_value(Head(s)))

all_digits(s) == s # <<>> /\ \A i \in 1..Len(s) : is_digit(s[i])

float(s) ==
    IF all_digits(s) THEN [ok |-> TRUE, v |-> digits_value(s, 0)]
    ELSE IF s # <<>> /\ Head(s) = "-" /\ all_digits(Tail(s))
         THEN [ok |-> TRUE, v |-> 0 - digits_value(Tail(s), 0)]
    ELSE [ok |-> FALSE, v |-> 0]

\* faulty variant: an amount that float() rejects is taken as 0
parse_amount_lenient(val) ==
    IF is_blank(val) THEN [ok |-> TRUE, v |-> 0]
    ELSE [ok |-> TRUE, v |-> float(remove_chars(strip(str(val)), {",", " "})).v]

\* the amount parsing shared by Budget Amount and Disbursed Amount:
\* blank, '' and '-' are 0; anything else goes through float()
parse_amount(val) ==
    IF is_blank(val) THEN [ok |-> TRUE, v |-> 0]
    ELSE IF remove_chars(strip(str(val)), {",", " "}) \in {<<>>, <<"-">>} THEN [ok |-> TRUE, v |-> 0]
    ELSE float(remove_chars(strip(str(val)), {",", " "}))

\* An Activity ID cell: k is "nan", "none" or "id"; an identifier is the text
\* '<prefix>-<seq>', the prefix being 'Y<yy>' (yy >= 0) or foreign (yy = -1).
IdCell(k, yy, seq) == [k |-> k, yy |-> yy, seq |-> seq]
IdNaN == IdCell("nan", 0, 0)
ActId(yy, seq) == [yy |-> yy, seq |-> seq]
id_given(cell) == cell.k = "id"
id_of(cell) == ActId(cell.yy, cell.seq)

\* ------------------------------------------------------ persistent store

Users == {"u1", "u2"}

NotImplemented == <<"N", "o", "t", " ", "I", "m", "p", "l", "e", "m", "e", "n", "t", "e", "d">>

EmptyDb ==
    [statuses |-> {}, funders |-> <<>>, clusters |-> <<>>, activities |-> <<>>,
     audit |-> <<>>, batches |-> <<>>]

\* .first() of a queryset: the least of the matching row indices S, 0 when there is none
first_index(S) == IF S = {} THEN 0 ELSE CHOOSE i \in S : \A j \in S : i <= j

\* faulty variant: the statuses are looked up by their names as stored
status_map_verbatim(d) == [key \in d.statuses |-> key]

\* status_map = {_normalize_key(s.name): s for s in ActivityStatus.objects.all()}
status_map(d) ==
    [key \in {normalize_key(s) : s \in d.statuses} |->
        CHOOSE s \in d.statuses : normalize_key(s) = key]

\* ActivityStatus.objects.filter(name__iexact='Not Implemented').first(); <<>> for None
default_status(d) ==
    IF \E s \in d.statuses : iexact(s, NotImplemented)
    THEN CHOOSE s \in d.statuses : iexact(s, NotImplemented)
    ELSE <<>>

\* Funder.objects.filter(name__iexact=p).first()
funder_exact(d, p) == first_index({i \in 1..Len(d.funders) : iexact(d.funders[i].name, p)})

\* Funder.objects.filter(name__icontains=p[:4]).first()
funder_similar(d, p) ==
    first_index({i \in 1..Len(d.funders) : icontains(d.funders[i].name, take(p, 4))})

\* Cluster.objects.filter(short_name__iexact=p).first() or ...filter(full_name__iexact=p).first()
cluster_exact(d, p) ==
    IF first_index({i \in 1..Len(d.clusters) : iexact(d.clusters[i].short_name, p)}) # 0
    THEN first_index({i \in 1..Len(d.clusters) : iexact(d.clusters[i].short_name, p)})
    ELSE first_index({i \in 1..Len(d.clusters) : iexact(d.clusters[i].full_name, p)})

\* faulty variant: no cluster counts as similar
cluster_similar_absent(d, p) == 0

\* Cluster.objects.filter(short_name__icontains=p[:4]).first()
cluster_similar(d, p) ==
    first_index({i \in 1..Len(d.clusters) : icontains(d.clusters[i].short_name, take(p, 4))})

\* Activity.objects.filter(activity_id=...).first()
activity_by_id(d, aid) ==
    first_index({i \in 1..Len(d.activities) : d.activities[i].activity_id = aid})

\* --------------------------------------------------------- uploaded file

\* One data row of the normalized dataframe
Row(name, cluster, funder, planned, budget, disbursed, status, activity_id) ==
    [name |-> name, cluster |-> cluster, funder |-> funder, planned |-> planned,
     budget |-> budget, disbursed |-> disbursed, status |-> status,
     activity_id |-> activity_id]

\* An uploaded file: name is its original name, readable says whether
\* _read_dataframe accepts it, month_col whether it has a Planned Implementation
\* Month column
File(name, readable, month_col, rows) ==
    [name |-> name, readable |-> readable, month_col |-> month_col, rows |-> rows]

\* row.get('Planned Implementation Month')
row_planned(f, r) == IF f.month_col THEN r.planned ELSE PlannedNone

planned_blank(value) == value.k \in {"nan", "none"}

\* ------------------------------------------------------------- _summarize

blank_status_rows(f) == {i \in 1..Len(f.rows) : is_blank(f.rows[i].status)}

\* rows 248-259: the statuses of the file that the status map does not know, with
\* 'Not Implemented' for a blank status when there is no default status
unknown_statuses(smap, dflt, f) ==
    {normalize_text(f.rows[i].status) : i \in
        {j \in 1..Len(f.rows) :
            /\ ~is_blank(f.rows[j].status)
            /\ normalize_key(normalize_text(f.rows[j].status)) \notin DOMAIN smap}}
    \cup (IF blank_status_rows(f) # {} /\ dflt = <<>> THEN {NotImplemented} ELSE {})

default_status_missing(dflt, f) == blank_status_rows(f) # {} /\ dflt = <<>>

\* the parts of the Funder cells that match no funder by name
unknown_funders(d, f) ==
    UNION {{p \in {cell_parts(f.rows[i].funder)[k] : k \in 1..Len(cell_parts(f.rows[i].funder))} :
                funder_exact(d, p) = 0} :
           i \in {j \in 1..Len(f.rows) : ~is_blank(f.rows[j].funder)}}

\* the parts of the Cluster cells that match no cluster by short or full name
unknown_clusters(d, f) ==
    UNION {{p \in {cell_parts(f.rows[i].cluster)[k] : k \in 1..Len(cell_parts(f.rows[i].cluster))} :
                cluster_exact(d, p) = 0} :
           i \in {j \in 1..Len(f.rows) : ~is_blank(f.rows[j].cluster)}}

\* the rows whose Activity ID names an existing Activity (row numbers are idx + 2)
updates(d, f) ==
    {i + 1 : i \in {j \in 1..Len(f.rows) :
        /\ id_given(f.rows[j].activity_id)
        /\ activity_by_id(d, id_of(f.rows[j].activity_id)) # 0}}

\* faulty variant: every similar cluster is suggested
cluster_suggestions_uncapped(d, p) ==
    SelectSeq([i \in 1..Len(d.clusters) |-> d.clusters[i].short_name],
              LAMBDA n : icontains(n, take(p, 4)))

\* list(Cluster.objects.filter(short_name__icontains=p[:4]).values_list('short_name', flat=True)[:5])
cluster_suggestions(d, p) ==
    take(SelectSeq([i \in 1..Len(d.clusters) |-> d.clusters[i].short_name],
                   LAMBDA n : icontains(n, take(p, 4))), 5)

\* list(Funder.objects.filter(name__icontains=p[:4]).values_list('name', flat=True)[:5])
funder_suggestions(d, p) ==
    take(SelectSeq([i \in 1..Len(d.funders) |-> d.funders[i].name],
                   LAMBDA n : icontains(n, take(p, 4))), 5)

\* unknown_clusters_details / unknown_funders_details: each unknown token with its
\* suggestions (none when nothing is similar)
unknown_clusters_details(d, f) ==
    {[name |-> p, suggestions |-> cluster_suggestions(d, p)] : p \in unknown_clusters(d, f)}

unknown_funders_details(d, f) ==
    {[name |-> p, suggestions |-> funder_suggestions(d, p)] : p \in unknown_funders(d, f)}

\* rows 306-308: the Cluster cell's pieces, stripped, the empty ones left out
dup_parts(val) ==
    LET pieces == re_split(str(val), <<>>)
    IN  {strip(pieces[i]) : i \in 1..Len(pieces)} \ {<<>>}

\* rows 297-310: the Activities of the row's name (case-insensitively) and year that,
\* when the row has a Cluster cell, have a cluster whose short name is one of its pieces
dup_similar(d, r, pm) ==
    {a \in 1..Len(d.activities) :
        /\ iexact(d.activities[a].name, strip(str(r.name)))
        /\ d.activities[a].year = pm.y
        /\ (truthy(r.cluster) /\ notna(r.cluster) /\ dup_parts(r.cluster) # {})
            => d.activities[a].clusters \cap dup_parts(r.cluster) # {}}

\* similar[:3] under Activity's ordering (-year, activity_id): of one year, the three
\* lowest identifiers
dup_first3(d, S) ==
    {a \in S : Cardinality({b \in S :
                    \/ d.activities[b].activity_id.yy < d.activities[a].activity_id.yy
                    \/ /\ d.activities[b].activity_id.yy = d.activities[a].activity_id.yy
                       /\ d.activities[b].activity_id.seq < d.activities[a].activity_id.seq}) < 3}

\* rows 293-328: the duplicates list, as (row number, existing identifier) pairs; a
\* row already in the updates list is left out
duplicates(d, f) ==
    UNION {{[row |-> j + 1, existing_id |-> d.activities[a].activity_id] :
                a \in dup_first3(d, dup_similar(d, f.rows[j],
                                                parse_planned_month(row_planned(f, f.rows[j]))))} :
           j \in {i \in 1..Len(f.rows) :
                    /\ truthy(f.rows[i].name) /\ notna(f.rows[i].name)
                    /\ planned_truthy(row_planned(f, f.rows[i]))
                    /\ parse_planned_month(row_planned(f, f.rows[i])).ok
                    /\ (i + 1) \notin updates(d, f)}}

summarize(d, f) ==
    [total_rows |-> Len(f.rows),
     unknown_statuses |-> unknown_statuses(status_map(d), default_status(d), f),
     default_status_missing |-> default_status_missing(default_status(d), f),
     unknown_funders |-> unknown_funders(d, f),
     unknown_clusters |-> unknown_clusters(d, f),
     updates |-> updates(d, f)]

\* faulty variant: refuses only when both kinds of hard block are present
hard_blocked_needs_both(summary) ==
    summary.unknown_statuses # {} /\ summary.default_status_missing

\* faulty variant: refuses only for a missing default status
hard_blocked_default_only(summary) == summary.default_status_missing

\* faulty variant: the confirm branch refuses nothing
hard_blocked_never(summary) == FALSE

\* the confirm branch's test: summary.get('unknown_statuses') or summary.get('default_status_missing')
hard_blocked(summary) ==
    summary.unknown_statuses # {} \/ summary.default_status_missing

\* ----------------------------------------------------- _process_dataframe

Err(rn, kind) == [row |-> rn, kind |-> kind]

\* faulty variant: the row's decision is not looked at
row_head_undecided(smap, dflt, f, r, rn, skip_rows) ==
    IF /\ is_blank(r.name) /\ planned_blank(row_planned(f, r)) /\ is_blank(r.status)
       /\ is_blank(r.budget) /\ is_blank(r.cluster) /\ is_blank(r.funder)
    THEN [kind |-> "skipped", err |-> "", status |-> <<>>]
    ELSE IF ~truthy(r.name)
    THEN [kind |-> "error", err |-> "missing_name", status |-> <<>>]
    ELSE IF is_blank(r.status)
    THEN (IF dflt = <<>>
          THEN [kind |-> "error", err |-> "missing_status", status |-> <<>>]
          ELSE [kind |-> "go", err |-> "", status |-> dflt])
    ELSE IF normalize_key(normalize_text(r.status)) \notin DOMAIN smap
    THEN [kind |-> "error", err |-> "invalid_status", status |-> <<>>]
    ELSE [kind |-> "go", err |-> "", status |-> smap[normalize_key(normalize_text(r.status))]]

\* Rows 392-435: blank row, decision, mandatory name, status; smap and dflt are the
\* status map and default status read before the loop (rows 375-378).
\* kind is "skipped", "error" (the row is dropped with err) or "go" (with status).
row_head(smap, dflt, f, r, rn, skip_rows) ==
    IF /\ is_blank(r.name) /\ planned_blank(row_planned(f, r)) /\ is_blank(r.status)
       /\ is_blank(r.budget) /\ is_blank(r.cluster) /\ is_blank(r.funder)
    THEN [kind |-> "skipped", err |-> "", status |-> <<>>]
    ELSE IF rn \in skip_rows
    THEN [kind |-> "skipped", err |-> "", status |-> <<>>]
    ELSE IF ~truthy(r.name)
    THEN [kind |-> "error", err |-> "missing_name", status |-> <<>>]
    ELSE IF is_blank(r.status)
    THEN (IF dflt = <<>>
          THEN [kind |-> "error", err |-> "missing_status", status |-> <<>>]
          ELSE [kind |-> "go", err |-> "", status |-> dflt])
    ELSE IF normalize_key(normalize_text(r.status)) \notin DOMAIN smap
    THEN [kind |-> "error", err |-> "invalid_status", status |-> <<>>]
    ELSE [kind |-> "go", err |-> "", status |-> smap[normalize_key(normalize_text(r.status))]]

\* ''.join(ch for ch in p.upper() if ch.isalnum())[:20] or p[:20]
cluster_short(p) ==
    IF take(only_alnum(upper(p)), 20) # <<>> THEN take(only_alnum(upper(p)), 20)
    ELSE take(p, 20)

\* Cluster.objects.create(short_name=short, full_name=p); short_name is unique, and the
\* IntegrityError of a taken short_name is raised outside every try block
cluster_create(d, short, full) ==
    IF \E i \in 1..Len(d.clusters) : d.clusters[i].short_name = short
    THEN [db |-> d, crashed |-> TRUE]
    ELSE [db |-> [d EXCEPT !.clusters = Append(@, [short_name |-> short, full_name |-> full])],
          crashed |-> FALSE]

\* Rows 441-458, from part k on: objs are the short names resolved so far
RECURSIVE resolve_clusters(_, _, _, _, _, _, _)
resolve_clusters(d, parts, k, objs, errs, rn, create_clusters) ==
    IF k > Len(parts) THEN [db |-> d, objs |-> objs, errs |-> errs, crashed |-> FALSE]
    ELSE IF cluster_exact(d, parts[k]) # 0
    THEN resolve_clusters(d, parts, k + 1,
            Append(objs, d.clusters[cluster_exact(d, parts[k])].short_name),
            errs, rn, create_clusters)
    ELSE IF cluster_similar(d, parts[k]) # 0
    THEN resolve_clusters(d, parts, k + 1,
            Append(objs, d.clusters[cluster_similar(d, parts[k])].short_name),
            errs, rn, create_clusters)
    ELSE IF parts[k] \in create_clusters
    THEN (IF cluster_create(d, cluster_short(parts[k]), parts[k]).crashed
          THEN [db |-> d, objs |-> objs, errs |-> errs, crashed |-> TRUE]
          ELSE resolve_clusters(cluster_create(d, cluster_short(parts[k]), parts[k]).db,
                    parts, k + 1, Append(objs, cluster_short(parts[k])),
                    errs, rn, create_clusters))
    ELSE resolve_clusters(d, parts, k + 1, objs,
            Append(errs, Err(rn, "unknown_cluster")), rn, create_clusters)

RECURSIVE itoa(_)
itoa(n) == IF n < 10 THEN <<Digits[n + 1]>> ELSE itoa(n \div 10) \o <<Digits[(n % 10) + 1]>>

\* ''.join(ch for ch in p.upper() if ch.isalnum())[:6] or 'FDR'
funder_base(p) ==
    IF take(only_alnum(upper(p)), 6) # <<>> THEN take(only_alnum(upper(p)), 6)
    ELSE <<"F", "D", "R">>

code_n(base, i) == IF i = 0 THEN base ELSE base \o itoa(i)

code_taken(d, code) == \E i \in 1..Len(d.funders) : d.funders[i].code = code

\* the while loop of rows 474-478: base, base1, base2, ... until one is free
gen_code(d, p) ==
    code_n(funder_base(p),
           CHOOSE i \in 0..Len(d.funders) :
               /\ ~code_taken(d, code_n(funder_base(p), i))
               /\ \A j \in 0..(i - 1) : code_taken(d, code_n(funder_base(p), j)))

\* Funder.objects.create(code=code, name=p, active=True); code is unique, and the
\* IntegrityError of a taken code is raised outside every try block
funder_create(d, code, name) ==
    IF code_taken(d, code)
    THEN [db |-> d, crashed |-> TRUE]
    ELSE [db |-> [d EXCEPT !.funders = Append(@, [code |-> code, name |-> name])],
          crashed |-> FALSE]

\* faulty variant: a funder is made for every unmatched part, confirmed or not
RECURSIVE funder_scan_unconfirmed(_, _, _, _, _, _, _)
funder_scan_unconfirmed(d, parts, k, objs, errs, rn, create_funders) ==
    IF k > Len(parts)
    THEN [pending |-> FALSE, k |-> k, code |-> <<>>, objs |-> objs, errs |-> errs]
    ELSE IF funder_exact(d, parts[k]) # 0
    THEN funder_scan_unconfirmed(d, parts, k + 1,
            Append(objs, d.funders[funder_exact(d, parts[k])].code), errs, rn, create_funders)
    ELSE IF funder_similar(d, parts[k]) # 0
    THEN funder_scan_unconfirmed(d, parts, k + 1,
            Append(objs, d.funders[funder_similar(d, parts[k])].code), errs, rn, create_funders)
    ELSE [pending |-> TRUE, k |-> k, code |-> gen_code(d, parts[k]), objs |-> objs, errs |-> errs]

\* Rows 464-486 up to, and not including, the next Funder.objects.create: the
\* lookups of the parts from k on.  pending says a part needs a new funder, with
\* the code the while loop generated for it.
RECURSIVE funder_scan(_, _, _, _, _, _, _)
funder_scan(d, parts, k, objs, errs, rn, create_funders) ==
    IF k > Len(parts)
    THEN [pending |-> FALSE, k |-> k, code |-> <<>>, objs |-> objs, errs |-> errs]
    ELSE IF funder_exact(d, parts[k]) # 0
    THEN funder_scan(d, parts, k + 1,
            Append(objs, d.funders[funder_exact(d, parts[k])].code), errs, rn, create_funders)
    ELSE IF funder_similar(d, parts[k]) # 0
    THEN funder_scan(d, parts, k + 1,
            Append(objs, d.funders[funder_similar(d, parts[k])].code), errs, rn, create_funders)
    ELSE IF parts[k] \in create_funders
    THEN [pending |-> TRUE, k |-> k, code |-> gen_code(d, parts[k]), objs |-> objs, errs |-> errs]
    ELSE funder_scan(d, parts, k + 1, objs,
            Append(errs, Err(rn, "unknown_funder")), rn, create_funders)

\* Rows 464-486 run without interruption
RECURSIVE resolve_funders(_, _, _, _, _, _, _)
resolve_funders(d, parts, k, objs, errs, rn, create_funders) ==
    LET s == funder_scan(d, parts, k, objs, errs, rn, create_funders)
        c == funder_create(d, s.code, parts[s.k])
    IN  IF ~s.pending THEN [db |-> d, objs |-> s.objs, errs |-> s.errs, crashed |-> FALSE]
        ELSE IF c.crashed THEN [db |-> d, objs |-> s.objs, errs |-> s.errs, crashed |-> TRUE]
        ELSE resolve_funders(c.db, parts, s.k + 1, Append(s.objs, s.code), s.errs,
                             rn, create_funders)

\* --------------------------------------------------------------- Activity

Audit(user, action, obj) == [user |-> user, action |-> action, object_repr |-> obj]

\* faulty variant: a total budget of 0 is refused
clean_positive_budget(total_budget, disbursed_amount) ==
    /\ total_budget > 0
    /\ disbursed_amount >= 0
    /\ ~(disbursed_amount # 0 /\ disbursed_amount > total_budget)

\* Activity.clean: the numeric checks (the procurement and recurrence fields keep
\* their defaults in an upload)
clean(total_budget, disbursed_amount) ==
    /\ total_budget >= 0
    /\ disbursed_amount >= 0
    /\ ~(disbursed_amount # 0 /\ disbursed_amount > total_budget)

\* Activity._compute_last_day_of_month
compute_last_day_of_month(dt) == Date(dt.y, dt.m, monthrange(dt.y, dt.m))

max_of(S) == IF S = {} THEN 0 ELSE CHOOSE x \in S : \A y \in S : y <= x

\* Activity._next_sequence_for_year: int(aid.split('-')[-1]) is the identifier's seq
next_sequence_for_year(d, year) ==
    max_of({d.activities[i].activity_id.seq : i \in
                {j \in 1..Len(d.activities) : d.activities[j].year = year}}) + 1

\* f"Y{yy}-{seq:06d}" with yy = str(year)[-2:]
generated_id(d, year) == ActId(year % 100, next_sequence_for_year(d, year))

\* Rows 573-594: Activity(...).clean(), save() with the generated identifier (unique),
\* the post_save signal's audit entry, the m2m sets and the upload's audit entry
create_activity(d, name, status, pm, total_budget, disbursed_amount, fobjs, cobjs, user) ==
    IF ~clean(total_budget, disbursed_amount)
    THEN [db |-> d, outcome |-> "error", err |-> "validation"]
    ELSE IF activity_by_id(d, generated_id(d, pm.y)) # 0
    THEN [db |-> d, outcome |-> "error", err |-> "failed"]
    ELSE [db |-> [d EXCEPT
                    !.activities = Append(@,
                        [activity_id |-> generated_id(d, pm.y),
                         name |-> str(name), year |-> pm.y, status |-> status,
                         planned_month |-> compute_last_day_of_month(pm),
                         total_budget |-> total_budget,
                         disbursed_amount |-> disbursed_amount,
                         funders |-> {fobjs[i] : i \in 1..Len(fobjs)},
                         clusters |-> {cobjs[i] : i \in 1..Len(cobjs)}]),
                    !.audit = @ \o <<Audit("", "Activity created", generated_id(d, pm.y)),
                                     Audit(user, "Activity created via upload",
                                           generated_id(d, pm.y))>>],
          outcome |-> "created", err |-> ""]

\* faulty variant: the update leaves no 'Activity updated via upload' entry
update_activity_unaudited(d, e, name, status, pm, total_budget, disbursed_amount, fobjs, cobjs, user) ==
    IF ~clean(total_budget, disbursed_amount)
    THEN [db |-> d, outcome |-> "error", err |-> "validation"]
    ELSE [db |-> [d EXCEPT
                    !.activities[e] =
                        [activity_id |-> d.activities[e].activity_id,
                         name |-> str(name), year |-> pm.y, status |-> status,
                         planned_month |-> compute_last_day_of_month(pm),
                         total_budget |-> total_budget,
                         disbursed_amount |-> disbursed_amount,
                         funders |-> {fobjs[i] : i \in 1..Len(fobjs)},
                         clusters |-> {cobjs[i] : i \in 1..Len(cobjs)}]],
          outcome |-> "updated", err |-> ""]

\* faulty variant: the row's clusters and funders are added to those the Activity had
update_activity_merging(d, e, name, status, pm, total_budget, disbursed_amount, fobjs, cobjs, user) ==
    IF ~clean(total_budget, disbursed_amount)
    THEN [db |-> d, outcome |-> "error", err |-> "validation"]
    ELSE [db |-> [d EXCEPT
                    !.activities[e] =
                        [activity_id |-> d.activities[e].activity_id,
                         name |-> str(name), year |-> pm.y, status |-> status,
                         planned_month |-> compute_last_day_of_month(pm),
                         total_budget |-> total_budget,
                         disbursed_amount |-> disbursed_amount,
                         funders |-> d.activities[e].funders \cup {fobjs[i] : i \in 1..Len(fobjs)},
                         clusters |-> d.activities[e].clusters \cup {cobjs[i] : i \in 1..Len(cobjs)}],
                    !.audit = Append(@, Audit(user, "Activity updated via upload",
                                              d.activities[e].activity_id))],
          outcome |-> "updated", err |-> ""]

\* Rows 551-570: the existing Activity e gets the row's fields, clean(), save() with
\* the signals' audit entries for a changed status or name, the m2m sets replaced
update_activity(d, e, name, status, pm, total_budget, disbursed_amount, fobjs, cobjs, user) ==
    IF ~clean(total_budget, disbursed_amount)
    THEN [db |-> d, outcome |-> "error", err |-> "validation"]
    ELSE [db |-> [d EXCEPT
                    !.activities[e] =
                        [activity_id |-> d.activities[e].activity_id,
                         name |-> str(name), year |-> pm.y, status |-> status,
                         planned_month |-> compute_last_day_of_month(pm),
                         total_budget |-> total_budget,
                         disbursed_amount |-> disbursed_amount,
                         funders |-> {fobjs[i] : i \in 1..Len(fobjs)},
                         clusters |-> {cobjs[i] : i \in 1..Len(cobjs)}],
                    !.audit = @
                        \o (IF d.activities[e].status # status
                            THEN <<Audit("", "Activity status changed", d.activities[e].activity_id)>>
                            ELSE <<>>)
                        \o (IF name = NaN \/ d.activities[e].name # str(name)
                            THEN <<Audit("", "Activity name changed", d.activities[e].activity_id)>>
                            ELSE <<>>)
                        \o <<Audit(user, "Activity updated via upload",
                                   d.activities[e].activity_id)>>],
          outcome |-> "updated", err |-> ""]

\* Rows 488-602: planned month, amounts, then the upsert inside its try block
row_tail(d, f, r, status, cobjs, fobjs, user) ==
    LET planned == row_planned(f, r)
        pm == parse_planned_month(planned)
        budget == parse_amount(r.budget)
        disb == parse_amount(r.disbursed)
        disbursed_amount == IF disb.ok THEN disb.v ELSE 0
        e == IF id_given(r.activity_id) THEN activity_by_id(d, id_of(r.activity_id)) ELSE 0
    IN  IF planned_truthy(planned) /\ ~pm.ok
        THEN [db |-> d, outcome |-> "error", err |-> "invalid_date"]
        ELSE IF ~pm.ok
        THEN [db |-> d, outcome |-> "error", err |-> "month_required"]
        ELSE IF ~budget.ok
        THEN [db |-> d, outcome |-> "error", err |-> "invalid_budget"]
        ELSE IF e # 0
        THEN update_activity(d, e, r.name, status, pm, budget.v, disbursed_amount,
                             fobjs, cobjs, user)
        ELSE create_activity(d, r.name, status, pm, budget.v, disbursed_amount,
                             fobjs, cobjs, user)

\* The running totals of _process_dataframe: report keeps, per row handled, what
\* became of it; crashed says an exception left the loop
Acc(d) ==
    [db |-> d, created |-> 0, updated |-> 0, skipped |-> 0, errors |-> <<>>,
     report |-> <<>>, crashed |-> FALSE]

\* faulty variant: a row dropped with an error is counted as skipped too
count_dropped_as_skipped(acc, rn, outcome, errs, d) ==
    [db |-> d,
     created |-> acc.created + (IF outcome = "created" THEN 1 ELSE 0),
     updated |-> acc.updated + (IF outcome = "updated" THEN 1 ELSE 0),
     skipped |-> acc.skipped + (IF outcome \in {"skipped", "error"} THEN 1 ELSE 0),
     errors |-> acc.errors \o errs,
     report |-> Append(acc.report, [row |-> rn, outcome |-> outcome, errs |-> Len(errs)]),
     crashed |-> outcome = "crashed"]

count(acc, rn, outcome, errs, d) ==
    [db |-> d,
     created |-> acc.created + (IF outcome = "created" THEN 1 ELSE 0),
     updated |-> acc.updated + (IF outcome = "updated" THEN 1 ELSE 0),
     skipped |-> acc.skipped + (IF outcome = "skipped" THEN 1 ELSE 0),
     errors |-> acc.errors \o errs,
     report |-> Append(acc.report, [row |-> rn, outcome |-> outcome, errs |-> Len(errs)]),
     crashed |-> outcome = "crashed"]

\* the row once its references are resolved: res is the outcome of the funder
\* resolution, cres of the cluster resolution
row_finish(acc, f, r, rn, status, cres, res, user) ==
    LET t == row_tail(res.db, f, r, status, cres.objs, res.objs, user)
    IN  IF res.crashed THEN count(acc, rn, "crashed", res.errs, res.db)
        ELSE count(acc, rn, t.outcome,
                   IF t.outcome = "error" THEN Append(res.errs, Err(rn, t.err)) ELSE res.errs,
                   t.db)

\* one iteration of the loop of rows 380-602, run without interruption
process_row(acc, smap, dflt, f, i, skip_rows, create_funders, create_clusters, user) ==
    LET r == f.rows[i]
        rn == i + 1
        h == row_head(smap, dflt, f, r, rn, skip_rows)
        cres == resolve_clusters(acc.db, cell_parts(r.cluster), 1, <<>>, <<>>, rn, create_clusters)
        fres == resolve_funders(cres.db, cell_parts(r.funder), 1, <<>>, cres.errs, rn, create_funders)
    IN  IF h.kind = "skipped" THEN count(acc, rn, "skipped", <<>>, acc.db)
        ELSE IF h.kind = "error" THEN count(acc, rn, "error", <<Err(rn, h.err)>>, acc.db)
        ELSE IF cres.crashed THEN count(acc, rn, "crashed", cres.errs, cres.db)
        ELSE row_finish(acc, f, r, rn, h.status, cres, fres, user)

RECURSIVE process_rows(_, _, _, _, _, _, _, _, _)
process_rows(acc, smap, dflt, f, i, skip_rows, create_funders, create_clusters, user) ==
    IF i > Len(f.rows) \/ acc.crashed THEN acc
    ELSE process_rows(process_row(acc, smap, dflt, f, i, skip_rows, create_funders,
                                  create_clusters, user),
                      smap, dflt, f, i + 1, skip_rows, create_funders, create_clusters, user)

process_dataframe(d, f, user, skip_rows, create_funders, create_clusters) ==
    process_rows(Acc(d), status_map(d), default_status(d), f, 1, skip_rows,
                 create_funders, create_clusters, user)

\* ------------------------------------------------------ upload_activities

VARIABLES
    db,       \* the persistent store: statuses, funders, clusters, activities, audit, batches
    session,  \* per user, request.session['upload_staged']: staged or not, and the temp path
    disk,     \* the temporary files ever made, by path: whether each still exists, and its content
    review,   \* per user, the verdict of the Summary on the page last rendered to them
    last,     \* the response to the latest request
    run       \* per user, a confirm request in progress (used when requests interleave)

vars == <<db, session, disk, review, last, run>>

NoFile == File("", FALSE, FALSE, <<>>)
NoSession == [staged |-> FALSE, path |-> 0]

\* A confirm request in progress: phase is "rows" (at row i of the loop) or "create"
\* (in row i, about to run Funder.objects.create for part k with the generated
\* code); the other fields are the request's local variables
InFlight(phase, path, i, k, code, objs, errs, status, cobjs, acc, smap, dflt, skip_rows, create_funders, create_clusters) ==
    [phase |-> phase, path |-> path, i |-> i, k |-> k, code |-> code, objs |-> objs,
     errs |-> errs, status |-> status, cobjs |-> cobjs, acc |-> acc, smap |-> smap,
     dflt |-> dflt, skip_rows |-> skip_rows, create_funders |-> create_funders,
     create_clusters |-> create_clusters]

Idle ==
    InFlight("idle", 0, 0, 0, <<>>, <<>>, <<>>, <<>>, <<>>, Acc(EmptyDb),
             status_map(EmptyDb), <<>>, {}, {}, {})

\* shown is the verdict of the Summary the user had on screen when sending the request
Response(op, user, outcome, acc, shown) ==
    [op |-> op, user |-> user, outcome |-> outcome,
     created |-> acc.created, updated |-> acc.updated, skipped |-> acc.skipped,
     errors |-> acc.errors, report |-> acc.report, shown |-> shown]

\* context['summary'] as rendered: "blocked" when the Summary lists a hard block
verdict(summary) == IF hard_blocked(summary) THEN "blocked" ELSE "ok"

\* os.path.exists(temp_path)
exists(dk, path) == path \in 1..Len(dk) /\ dk[path].exists

\* os.remove(temp_path)
remove(dk, path) == [dk EXCEPT ![path] = [exists |-> FALSE, file |-> NoFile]]

\* faulty variant: the cleanup runs whatever keep_staged says
finally_block_always(ss, dk, u, path, keep_staged) ==
    [session |-> [ss EXCEPT ![u] = NoSession],
     disk |-> IF exists(dk, path) THEN remove(dk, path) ELSE dk]

\* The finally block of the confirm branch, rows 674-678: unless keep_staged, the
\* temporary file is removed if it exists and the session entry is popped
finally_block(ss, dk, u, path, keep_staged) ==
    IF keep_staged THEN [session |-> ss, disk |-> dk]
    ELSE [session |-> [ss EXCEPT ![u] = NoSession],
          disk |-> IF exists(dk, path) THEN remove(dk, path) ELSE dk]

\* Rows 650-654 after the rows are processed: df['Planned Implementation Month']
\* raises KeyError when the file has no such column; otherwise the UploadBatch and
\* its audit entry are written
finalize(d, f, user) ==
    IF ~f.month_col THEN [db |-> d, raised |-> TRUE]
    ELSE [db |-> [d EXCEPT !.batches = Append(@, [uploaded_by |-> user, file_name |-> f.name]),
                           !.audit = Append(@, Audit(user, "Upload finalized", <<>>))],
          raised |-> FALSE]

\* faulty variant: staging a readable file already records an upload batch
stage_recording_batch(u, f) ==
    /\ run[u].phase = "idle"
    /\ f.readable
    /\ disk' = Append(disk, [exists |-> TRUE, file |-> f])
    /\ session' = [session EXCEPT ![u] = [staged |-> TRUE, path |-> Len(disk) + 1]]
    /\ review' = [review EXCEPT ![u] = verdict(summarize(db, f))]
    /\ last' = Response("stage", u, "staged", Acc(db), review[u])
    /\ db' = [db EXCEPT !.batches = Append(@, [uploaded_by |-> u, file_name |-> f.name])]
    /\ UNCHANGED run

\* faulty variant: an unreadable upload also drops the session entry
stage_dropping_session(u, f) ==
    /\ run[u].phase = "idle"
    /\ IF ~f.readable
       THEN /\ disk' = Append(disk, [exists |-> FALSE, file |-> NoFile])
            /\ session' = [session EXCEPT ![u] = NoSession]
            /\ review' = [review EXCEPT ![u] = "none"]
            /\ last' = Response("stage", u, "read_error", Acc(db), review[u])
       ELSE /\ disk' = Append(disk, [exists |-> TRUE, file |-> f])
            /\ session' = [session EXCEPT ![u] = [staged |-> TRUE, path |-> Len(disk) + 1]]
            /\ review' = [review EXCEPT ![u] = verdict(summarize(db, f))]
            /\ last' = Response("stage", u, "staged", Acc(db), review[u])
    /\ UNCHANGED <<db, run>>

\* Rows 683-703: POST with a file.  The file is written to a new temporary path;
\* unreadable, it is removed again and the session is left alone; readable, the
\* session entry is overwritten with the new path.
Stage(u, f) ==
    /\ run[u].phase = "idle"
    /\ IF ~f.readable
       THEN /\ disk' = Append(disk, [exists |-> FALSE, file |-> NoFile])
            /\ session' = session
            /\ review' = [review EXCEPT ![u] = "none"]
            /\ last' = Response("stage", u, "read_error", Acc(db), review[u])
       ELSE /\ disk' = Append(disk, [exists |-> TRUE, file |-> f])
            /\ session' = [session EXCEPT ![u] = [staged |-> TRUE, path |-> Len(disk) + 1]]
            /\ review' = [review EXCEPT ![u] = verdict(summarize(db, f))]
            /\ last' = Response("stage", u, "staged", Acc(db), review[u])
    /\ UNCHANGED <<db, run>>

\* request.session is written back by SessionMiddleware after the view: the changes
\* a request made to it are saved unless the request ends in an unhandled exception
\* (a 500 response), in which case the stored session stays as it was
session_saved(before, after, raised) == IF raised THEN before ELSE after

\* Rows 607-680: POST action=confirm, run without interruption
Confirm(u, skip_rows, create_funders, create_clusters) ==
    LET path == session[u].path
        f == disk[path].file
    IN  /\ run[u].phase = "idle"
        /\ IF ~session[u].staged
           THEN /\ last' = Response("confirm", u, "no_staged", Acc(db), review[u])
                /\ review' = [review EXCEPT ![u] = "none"]
                /\ UNCHANGED <<db, session, disk>>
           ELSE IF ~exists(disk, path)
           THEN /\ last' = Response("confirm", u, "missing_file", Acc(db), review[u])
                /\ review' = [review EXCEPT ![u] = "none"]
                /\ session' = [session EXCEPT ![u] = NoSession]
                /\ UNCHANGED <<db, disk>>
           ELSE IF ~f.readable
           THEN /\ last' = Response("confirm", u, "raised", Acc(db), review[u])
                /\ review' = [review EXCEPT ![u] = "none"]
                /\ session' = session_saved(session,
                                  finally_block(session, disk, u, path, FALSE).session, TRUE)
                /\ disk' = finally_block(session, disk, u, path, FALSE).disk
                /\ UNCHANGED db
           ELSE IF hard_blocked(summarize(db, f))
           THEN /\ last' = Response("confirm", u, "blocked", Acc(db), review[u])
                /\ review' = [review EXCEPT ![u] = "blocked_at_confirm"]
                /\ session' = finally_block(session, disk, u, path, TRUE).session
                /\ disk' = finally_block(session, disk, u, path, TRUE).disk
                /\ UNCHANGED db
           ELSE \E acc \in {process_dataframe(db, f, u, skip_rows, create_funders,
                                              create_clusters)} :
                \E fin \in {finalize(acc.db, f, u)} :
                /\ db' = IF acc.crashed THEN acc.db ELSE fin.db
                /\ last' = Response("confirm", u,
                                    IF acc.crashed \/ fin.raised THEN "raised" ELSE "done",
                                    acc, review[u])
                /\ review' = [review EXCEPT ![u] = "none"]
                /\ session' = session_saved(session,
                                  finally_block(session, disk, u, path, FALSE).session,
                                  acc.crashed \/ fin.raised)
                /\ disk' = finally_block(session, disk, u, path, FALSE).disk
        /\ UNCHANGED run

\* masters/views.py status_create: a data manager adds a status (the statuses are
\* kept as the set of their names: a second status of a name changes no lookup)
StatusCreate(name) ==
    /\ name \notin db.statuses
    /\ db' = [db EXCEPT !.statuses = @ \cup {name}]
    /\ UNCHANGED <<session, disk, review, last, run>>

\* masters/views.py status_delete: Activity.status is on_delete=PROTECT, so a status
\* some Activity uses cannot be deleted
StatusDelete(name) ==
    /\ name \in db.statuses
    /\ ~\E i \in 1..Len(db.activities) : db.activities[i].status = name
    /\ db' = [db EXCEPT !.statuses = @ \ {name}]
    /\ UNCHANGED <<session, disk, review, last, run>>

\* ------------------------------------------- the staging workflow (Spec)

MaxUploads == 2

Done == <<"D", "o", "n", "e">>
Bogus == <<"B", "o", "g", "u", "s">>
StatusNames == {Bogus, NotImplemented}

Aug26 == PlannedCell("mon_yy", 26, 8, 0)

RowDone == Row(<<"A">>, NaN, NaN, Aug26, NaN, NaN, <<"d", "o", "n", "e", " ">>, IdNaN)
RowBogus == Row(<<"B">>, NaN, NaN, Aug26, <<"5">>, NaN, Bogus, IdNaN)
RowNoStatus == Row(<<"C">>, NaN, NaN, Aug26, NaN, NaN, NaN, IdNaN)

StagingFiles ==
    {File("two.xlsx", TRUE, TRUE, <<RowDone, RowBogus>>),
     File("blank.xlsx", TRUE, TRUE, <<RowNoStatus>>),
     File("notes.txt", FALSE, FALSE, <<>>)}

SkipSets == {{}, {2}}

Init ==
    /\ db \in {[EmptyDb EXCEPT !.statuses = {Done} \cup S] : S \in SUBSET StatusNames}
    /\ session = [u \in Users |-> NoSession]
    /\ disk = <<>>
    /\ review = [u \in Users |-> "none"]
    /\ last = Response("none", "", "none", Acc(EmptyDb), "none")
    /\ run = [u \in Users |-> Idle]

Next ==
    \/ \E u \in Users, f \in StagingFiles : Len(disk) < MaxUploads /\ Stage(u, f)
    \/ \E u \in Users, sk \in SkipSets : Confirm(u, sk, {}, {})
    \/ \E name \in StatusNames : StatusCreate(name)
    \/ \E name \in StatusNames : StatusDelete(name)

Spec == Init /\ [][Next]_vars

\* ------------------------------------------------ claims on the workflow

\* the claims' own reading of "the status is in the master status set"
StatusInMaster(d, s) == \E m \in d.statuses : normalize_key(m) = normalize_key(s)
HasDefaultStatus(d) == \E m \in d.statuses : lower(m) = lower(NotImplemented)

\* some row has an unknown status, or a blank one while there is no default status
FileHardBlocked(d, f) ==
    \E i \in 1..Len(f.rows) :
        IF is_blank(f.rows[i].status) THEN ~HasDefaultStatus(d)
        ELSE ~StatusInMaster(d, f.rows[i].status)

HasStaged(u) == session[u].staged /\ exists(disk, session[u].path)
StagedFile(u) == disk[session[u].path].file

\* C1: a confirm of a staged file that has a row with an unknown status, or a blank
\* status while no default status exists, is refused as a whole: the store is left
\* exactly as it was and zero created/updated are reported, whichever rows the
\* decisions skip (none skipped included).
C1_HardBlockAbortsCommit ==
    [][\A u \in Users, sk \in SkipSets :
        (/\ last'.op = "confirm" /\ last'.user = u
         /\ HasStaged(u) /\ FileHardBlocked(db, StagedFile(u))
         /\ Confirm(u, sk, {}, {}))
        => /\ db' = db
           /\ last'.outcome = "blocked"
           /\ last'.created = 0 /\ last'.updated = 0]_vars

C1_Witness ==
    /\ last.op = "confirm" /\ last.outcome = "blocked"
    /\ HasStaged(last.user) /\ FileHardBlocked(db, StagedFile(last.user))

\* C2: a hard-blocked confirm leaves the session entry and the temporary file as
\* they were, and a confirm right after a blocked one, once no row of the file is
\* hard-blocking any more, goes through without a new upload.
C2_BlockedKeepsStagedFile ==
    [][\A u \in Users, sk \in SkipSets :
        (last'.op = "confirm" /\ last'.user = u /\ Confirm(u, sk, {}, {}))
        => /\ last'.outcome = "blocked"
                => /\ session'[u] = session[u] /\ disk' = disk
                   /\ session'[u].staged /\ exists(disk', session'[u].path)
           /\ (/\ last.op = "confirm" /\ last.user = u /\ last.outcome = "blocked"
               /\ ~FileHardBlocked(db, StagedFile(u)))
                => last'.outcome \in {"done", "raised"}]_vars

C2_Witness ==
    last.op = "confirm" /\ last.outcome = "done" /\ last.shown = "blocked_at_confirm"

\* C4: staging a readable file over an existing staged file leaves the session
\* pointing at the new file only, and the earlier temporary file deleted.
C4_RestagingDiscardsPrior ==
    [][\A u \in Users, f \in StagingFiles :
        (HasStaged(u) /\ f.readable /\ Stage(u, f))
        => /\ session'[u] = [staged |-> TRUE, path |-> Len(disk) + 1]
           /\ ~exists(disk', session[u].path)]_vars

\* C5: an upload changes nothing of the store: statuses, funders, clusters,
\* activities, audit entries and batches are as before; nor does it touch another
\* user's session or any temporary file already there.
C5_StagingIsReadOnly ==
    [][\A u \in Users, f \in StagingFiles :
        Stage(u, f)
        => /\ db' = db
           /\ \A v \in Users \ {u} : session'[v] = session[v]
           /\ \A p \in 1..Len(disk) : disk'[p] = disk[p]]_vars

C5_Witness ==
    /\ last.op = "stage" /\ last.outcome = "staged"
    /\ db.activities # <<>> /\ HasStaged(last.user)

\* C6: whether a confirm is refused is decided by the staged file and the statuses
\* in the store at that moment, whatever verdict the Summary shown at staging had.
C6_BlockDecidedAtCommitTime ==
    [][\A u \in Users, sk \in SkipSets :
        (last'.op = "confirm" /\ last'.user = u /\ HasStaged(u) /\ Confirm(u, sk, {}, {}))
        => (last'.outcome = "blocked" <=> FileHardBlocked(db, StagedFile(u)))]_vars

\* the Summary at staging listed no hard block, a status was removed, the confirm is refused
C6_Witness ==
    last.op = "confirm" /\ last.outcome = "blocked" /\ last.shown = "ok"

\* ------------------------------------- the commit pipeline (SpecCommit)

MaxCommitUploads == 2

ABCD == <<"A", "B", "C", "D">>
AB_CD == <<"A", "B", "-", "C", "D">>
EF == <<"E", "F">>
FAO == <<"F", "A", "O">>
Ten == <<"1", "0">>

\* every row carries an identifier that is not one of the store's
RowExt1 == Row(<<"A">>, NaN, NaN, Aug26, Ten, NaN, Done, IdCell("id", -1, 1))
RowExt2 == Row(<<"B">>, NaN, NaN, Aug26, Ten, NaN, Done, IdCell("id", -1, 2))
\* a cluster and a funder the master data does not have
RowRefs == Row(<<"C">>, EF, FAO, Aug26, Ten, NaN, Done, IdNaN)
\* no Activity Name
RowNoName == Row(<<>>, NaN, NaN, Aug26, Ten, NaN, Done, IdNaN)
\* a cluster name whose generated short name is the existing cluster's
RowClash == Row(<<"D">>, AB_CD, NaN, Aug26, Ten, NaN, Done, IdNaN)
RowPlain == Row(<<"E">>, ABCD, NaN, Aug26, Ten, NaN, Done, IdNaN)

CommitFiles ==
    {File("ids.xlsx", TRUE, TRUE, <<RowExt1, RowExt2>>),
     File("refs.xlsx", TRUE, TRUE, <<RowRefs, RowPlain>>),
     File("clash.xlsx", TRUE, TRUE, <<RowNoName, RowClash, RowPlain>>),
     File("nomonth.csv", TRUE, FALSE, <<RowPlain>>)}

\* request.POST.getlist('create_funder') and getlist('create_cluster')
CreateFunderSets == {{}, {FAO}}
CreateClusterSets == {{}, {EF, AB_CD}}

InitCommit ==
    /\ db = [EmptyDb EXCEPT !.statuses = {Done},
                            !.clusters = <<[short_name |-> ABCD, full_name |-> ABCD]>>]
    /\ session = [u \in Users |-> NoSession]
    /\ disk = <<>>
    /\ review = [u \in Users |-> "none"]
    /\ last = Response("none", "", "none", Acc(EmptyDb), "none")
    /\ run = [u \in Users |-> Idle]

NextCommit ==
    \/ \E u \in Users, f \in CommitFiles : Len(disk) < MaxCommitUploads /\ Stage(u, f)
    \/ \E u \in Users, cf \in CreateFunderSets, cc \in CreateClusterSets :
            Confirm(u, {}, cf, cc)

SpecCommit == InitCommit /\ [][NextCommit]_vars

\* ------------------------------------------ claims on the commit pipeline

AllRowsCarryId(f) == \A i \in 1..Len(f.rows) : id_given(f.rows[i].activity_id)

\* the latest upload batch recorded is a commit of this file
CommittedLast(d, f) ==
    d.batches # <<>> /\ d.batches[Len(d.batches)].file_name = f.name

\* C3: a confirm that is not hard-blocked clears the session entry and deletes the
\* temporary file, whether it returns or raises; a confirm with no session entry
\* reports that nothing is staged and leaves the store alone; and only a new upload
\* by the same user makes a session entry again.
C3_CommittedAtMostOnce ==
    [][/\ \A u \in Users, cf \in CreateFunderSets, cc \in CreateClusterSets :
            (last'.op = "confirm" /\ last'.user = u /\ Confirm(u, {}, cf, cc))
            => /\ last'.outcome # "blocked"
                    => /\ ~session'[u].staged
                       /\ session[u].staged => ~exists(disk', session[u].path)
               /\ ~session[u].staged => (last'.outcome = "no_staged" /\ db' = db)
       /\ \A u \in Users :
            (~session[u].staged /\ session'[u].staged)
            => (last'.op = "stage" /\ last'.user = u /\ last'.outcome = "staged")]_vars

\* a confirm raised, and the next confirm finds a session entry whose file is gone
C3_StaleSessionAfterRaise ==
    last.op = "confirm" /\ last.outcome = "missing_file"

\* C7: when a file in which every row carries an identifier is committed with
\* default decisions, staged again and committed again, the second commit reports
\* zero created and the store has as many Activities after it as before it.
C7_RecommitByIdentifierCreatesNothing ==
    [][\A u \in Users, cf \in CreateFunderSets, cc \in CreateClusterSets :
        (/\ HasStaged(u) /\ AllRowsCarryId(StagedFile(u))
         /\ CommittedLast(db, StagedFile(u))
         /\ Confirm(u, {}, cf, cc))
        => /\ last'.created = 0
           /\ Len(db'.activities) = Len(db.activities)]_vars

\* the second commit of the file has made new Activities again
C7_DuplicatesAfterRecommit ==
    /\ last.op = "confirm" /\ last.outcome = "done" /\ last.created = 2
    /\ Len(db.activities) = 4
    /\ \A i \in 1..Len(db.batches) : db.batches[i].file_name = "ids.xlsx"

\* C8: in a commit that is not hard-blocked, when some row produced a row error,
\* every row of the file is handled and counted as created, updated, skipped or
\* error, and the commit returns its counts.
C8_RowErrorsNeverAbortBatch ==
    [][\A u \in Users, cf \in CreateFunderSets, cc \in CreateClusterSets :
        (/\ HasStaged(u) /\ ~FileHardBlocked(db, StagedFile(u))
         /\ Confirm(u, {}, cf, cc)
         /\ \E k \in 1..Len(last'.report) : last'.report[k].errs > 0)
        => /\ last'.outcome = "done"
           /\ Len(last'.report) = Len(StagedFile(u).rows)
           /\ \A k \in 1..Len(last'.report) :
                last'.report[k].outcome \in {"created", "updated", "skipped", "error"}]_vars

\* a commit stopped at a row after a row error, leaving later rows unhandled
C8_AbortedAfterRowError ==
    /\ last.op = "confirm" /\ last.outcome = "raised"
    /\ \E k \in 1..Len(last.report) : last.report[k].outcome = "error"
    /\ last.report[Len(last.report)].outcome = "crashed"

\* a part of the row's Cluster or Funder cell matches nothing in the master data
\* of d and is not confirmed for creation
RowUnresolved(d, r, create_funders, create_clusters) ==
    \/ /\ ~is_blank(r.cluster)
       /\ \E k \in 1..Len(cell_parts(r.cluster)) :
            /\ cluster_exact(d, cell_parts(r.cluster)[k]) = 0
            /\ cluster_similar(d, cell_parts(r.cluster)[k]) = 0
            /\ cell_parts(r.cluster)[k] \notin create_clusters
    \/ /\ ~is_blank(r.funder)
       /\ \E k \in 1..Len(cell_parts(r.funder)) :
            /\ funder_exact(d, cell_parts(r.funder)[k]) = 0
            /\ funder_similar(d, cell_parts(r.funder)[k]) = 0
            /\ cell_parts(r.funder)[k] \notin create_funders

\* C10: in a commit, a row with a cluster or funder token that matches no master
\* entity (not even after the commit) and is not confirmed for creation gets a row
\* error and is dropped: it is counted as an error, not as created or updated.
C10_UnresolvedReferenceDropsRow ==
    [][\A u \in Users, cf \in CreateFunderSets, cc \in CreateClusterSets :
        (HasStaged(u) /\ Confirm(u, {}, cf, cc) /\ last'.outcome = "done")
        => \A i \in 1..Len(StagedFile(u).rows) :
                RowUnresolved(db', StagedFile(u).rows[i], cf, cc)
                => /\ last'.report[i].errs > 0
                   /\ last'.report[i].outcome = "error"]_vars

\* an Activity was created from a row that got an unknown-reference error
C10_CreatedDespiteUnresolved ==
    /\ last.op = "confirm" /\ last.outcome = "done"
    /\ \E k \in 1..Len(last.report) :
        /\ last.report[k].outcome = "created"
        /\ \E e \in 1..Len(last.errors) :
            /\ last.errors[e].row = last.report[k].row
            /\ last.errors[e].kind \in {"unknown_cluster", "unknown_funder"}

\* ------------------------------------ interleaved commits (SpecRace)

\* the confirm request gets as far as _process_dataframe
Proceeds(u) ==
    /\ session[u].staged
    /\ exists(disk, session[u].path)
    /\ disk[session[u].path].file.readable
    /\ ~hard_blocked(summarize(db, disk[session[u].path].file))

\* Rows 607-648 and 369-378: the confirm request up to the loop over the rows
RaceBegin(u, skip_rows, create_funders, create_clusters) ==
    IF Proceeds(u)
    THEN /\ run[u].phase = "idle"
         /\ run' = [run EXCEPT ![u] =
                InFlight("rows", session[u].path, 1, 1, <<>>, <<>>, <<>>, <<>>, <<>>,
                         Acc(EmptyDb), status_map(db), default_status(db),
                         skip_rows, create_funders, create_clusters)]
         /\ UNCHANGED <<db, session, disk, review, last>>
    ELSE Confirm(u, skip_rows, create_funders, create_clusters)

\* an exception leaves the request: the finally block runs, the response is a 500
race_abort(u, acc) ==
    /\ db' = acc.db
    /\ last' = Response("confirm", u, "raised", acc, review[u])
    /\ review' = [review EXCEPT ![u] = "none"]
    /\ session' = session_saved(session,
                      finally_block(session, disk, u, run[u].path, FALSE).session, TRUE)
    /\ disk' = finally_block(session, disk, u, run[u].path, FALSE).disk
    /\ run' = [run EXCEPT ![u] = Idle]

\* the row is done with outcome acc: on to the next row
race_next_row(u, acc) ==
    /\ db' = acc.db
    /\ run' = [run EXCEPT ![u] =
            InFlight("rows", run[u].path, run[u].i + 1, 1, <<>>, <<>>, <<>>, <<>>, <<>>,
                     [acc EXCEPT !.db = EmptyDb], run[u].smap, run[u].dflt,
                     run[u].skip_rows, run[u].create_funders, run[u].create_clusters)]
    /\ UNCHANGED <<session, disk, review, last>>

\* the funder lookups of the row from part k on, in store d: either they stop
\* before a Funder.objects.create, or the row is finished
race_funders(u, d, status, cobjs, k, objs, errs) ==
    LET f == disk[run[u].path].file
        r == f.rows[run[u].i]
        rn == run[u].i + 1
    IN  \E s \in {funder_scan(d, cell_parts(r.funder), k, objs, errs, rn,
                              run[u].create_funders)} :
            IF s.pending
            THEN /\ db' = d
                 /\ run' = [run EXCEPT ![u] =
                        InFlight("create", run[u].path, run[u].i, s.k, s.code, s.objs,
                                 s.errs, status, cobjs, run[u].acc, run[u].smap,
                                 run[u].dflt, run[u].skip_rows, run[u].create_funders,
                                 run[u].create_clusters)]
                 /\ UNCHANGED <<session, disk, review, last>>
            ELSE race_next_row(u,
                    row_finish(run[u].acc, f, r, rn, status,
                               [db |-> d, objs |-> cobjs, errs |-> <<>>, crashed |-> FALSE],
                               [db |-> d, objs |-> s.objs, errs |-> s.errs, crashed |-> FALSE],
                               u))

\* Rows 380-486 of one iteration, up to the first Funder.objects.create if any
RaceRow(u) ==
    LET f == disk[run[u].path].file
        r == f.rows[run[u].i]
        rn == run[u].i + 1
    IN  /\ run[u].phase = "rows"
        /\ run[u].i <= Len(f.rows)
        /\ \E h \in {row_head(run[u].smap, run[u].dflt, f, r, rn, run[u].skip_rows)} :
           \E cres \in {resolve_clusters(db, cell_parts(r.cluster), 1, <<>>, <<>>, rn,
                                         run[u].create_clusters)} :
            IF h.kind = "skipped"
            THEN race_next_row(u, count(run[u].acc, rn, "skipped", <<>>, db))
            ELSE IF h.kind = "error"
            THEN race_next_row(u, count(run[u].acc, rn, "error", <<Err(rn, h.err)>>, db))
            ELSE IF cres.crashed
            THEN race_abort(u, count(run[u].acc, rn, "crashed", cres.errs, cres.db))
            ELSE race_funders(u, cres.db, h.status, cres.objs, 1, <<>>, cres.errs)

\* Row 479, Funder.objects.create(code=code, name=p, active=True), then the rest of
\* the row up to the next create
RaceCreate(u) ==
    LET f == disk[run[u].path].file
        r == f.rows[run[u].i]
        rn == run[u].i + 1
    IN  /\ run[u].phase = "create"
        /\ \E c \in {funder_create(db, run[u].code, cell_parts(r.funder)[run[u].k])} :
            IF c.crashed
            THEN race_abort(u, count(run[u].acc, rn, "crashed", run[u].errs, db))
            ELSE race_funders(u, c.db, run[u].status, run[u].cobjs, run[u].k + 1,
                              Append(run[u].objs, run[u].code), run[u].errs)

\* Rows 650-680 once the loop is over
RaceFinish(u) ==
    LET f == disk[run[u].path].file
    IN  /\ run[u].phase = "rows"
        /\ run[u].i > Len(f.rows)
        /\ \E fin \in {finalize(db, f, u)} :
            /\ db' = fin.db
            /\ last' = Response("confirm", u, IF fin.raised THEN "raised" ELSE "done",
                                run[u].acc, review[u])
            /\ review' = [review EXCEPT ![u] = "none"]
            /\ session' = session_saved(session,
                              finally_block(session, disk, u, run[u].path, FALSE).session,
                              fin.raised)
            /\ disk' = finally_block(session, disk, u, run[u].path, FALSE).disk
            /\ run' = [run EXCEPT ![u] = Idle]

MaxRaceUploads == 2

F_A_O == <<"F", ".", "A", ".", "O">>

\* a row whose funder is not in the master data, and a row after it
RowFunder == Row(<<"F">>, NaN, FAO, Aug26, Ten, NaN, Done, IdNaN)
RowDotted == Row(<<"G">>, NaN, F_A_O, Aug26, Ten, NaN, Done, IdNaN)

RaceFiles ==
    {File("fao.xlsx", TRUE, TRUE, <<RowFunder, RowPlain>>),
     File("dotted.xlsx", TRUE, TRUE, <<RowDotted, RowPlain>>)}

RaceFunderSets == {{}, {FAO, F_A_O}}

NextRace ==
    \/ \E u \in Users, f \in RaceFiles : Len(disk) < MaxRaceUploads /\ Stage(u, f)
    \/ \E u \in Users, cf \in RaceFunderSets : RaceBegin(u, {}, cf, {})
    \/ \E u \in Users : RaceRow(u)
    \/ \E u \in Users : RaceCreate(u)
    \/ \E u \in Users : RaceFinish(u)

SpecRace == InitCommit /\ [][NextRace]_vars

\* ---------------------------------------- claims on interleaved commits

\* C9: when commits of two users interleave and both create the same unknown
\* funder, the creation step of neither ends its commit: each commit goes on with
\* the rows it has left.
C9_RacingFunderCreationNeverAborts ==
    [][\A u \in Users :
        RaceCreate(u) => (run'[u].phase # "idle" /\ last' = last)]_vars

\* one commit made the funder, the other was ended by the store's refusal of the
\* same code with its second row never handled
C9_CommitAbortedByRace ==
    /\ last.op = "confirm" /\ last.outcome = "raised"
    /\ Len(last.report) = 1 /\ last.report[1].outcome = "crashed"
    /\ \E i \in 1..Len(db.funders) : db.funders[i].code = FAO

\* ------------------------------------------- single rows (SpecRows)

MaxRowUploads == 1

FA == <<"F", "A">>
Blank == <<" ">>
NanToken == <<"n", "a", "n">>

\* an Activity already in the store, of cluster ABCD
ActivityA ==
    [activity_id |-> ActId(26, 1), name |-> <<"A">>, year |-> 2026, status |-> Done,
     planned_month |-> Date(2026, 8, 31), total_budget |-> 10, disbursed_amount |-> 0,
     funders |-> {}, clusters |-> {ABCD}]

\* the store before the upload: with or without the funder FAO (then a funder of A)
RowStores ==
    {[EmptyDb EXCEPT !.statuses = {Done},
                     !.clusters = <<[short_name |-> ABCD, full_name |-> ABCD]>>,
                     !.activities = <<ActivityA>>],
     [EmptyDb EXCEPT !.statuses = {Done},
                     !.clusters = <<[short_name |-> ABCD, full_name |-> ABCD]>>,
                     !.funders = <<[code |-> FAO, name |-> FAO]>>,
                     !.activities = <<[ActivityA EXCEPT !.funders = {FAO}]>>]}

\* the Planned Implementation Month cells tried
PlannedCells ==
    {PlannedCell("mon_yy", yr, mon, 0) : yr \in {0, 24, 26, 99}, mon \in {2, 8}}
    \cup {PlannedCell("mon_yyyy", yr, mon, 0) : yr \in {2024, 2100}, mon \in {2, 4}}
    \cup {PlannedCell("date", 2026, 2, 15), PlannedCell("date", 2024, 12, 1)}

RowMonth(c) == Row(<<"M">>, NaN, NaN, c, Ten, NaN, Done, IdNaN)
RowBlankAmounts == Row(<<"E">>, NaN, NaN, Aug26, Blank, NaN, Done, IdNaN)
RowBadBudget == Row(<<"B">>, NaN, NaN, Aug26, <<"A", "B">>, NaN, Done, IdNaN)
RowNegative == Row(<<"N">>, NaN, NaN, Aug26, <<"-", "5">>, NaN, Done, IdNaN)
RowOverspent == Row(<<"O">>, NaN, NaN, Aug26, <<"5">>, Ten, Done, IdNaN)
RowNameNaN == Row(NaN, NaN, NaN, Aug26, Ten, NaN, Done, IdNaN)
RowNameBlank == Row(Blank, NaN, NaN, Aug26, Ten, NaN, Done, IdNaN)
RowNameToken == Row(NanToken, NaN, NaN, Aug26, Ten, NaN, Done, IdNaN)
RowNameNone == Row(None, NaN, NaN, Aug26, Ten, NaN, Done, IdNaN)
RowBadMonth == Row(<<"C">>, EF, FAO, PlannedText, Ten, NaN, Done, IdNaN)
RowNoMonth == Row(<<"C">>, EF, FAO, PlannedNaN, Ten, NaN, Done, IdNaN)
RowUpdate == Row(<<"A", "2">>, NaN, NaN, Aug26, Ten, NaN, Done, IdCell("id", 26, 1))
RowUpdateRefs ==
    Row(<<"A">>, ABCD \o <<",">> \o EF, FAO, Aug26, Ten, NaN, Done, IdCell("id", 26, 1))
RowSimilar == Row(<<"G">>, NaN, FA, Aug26, Ten, NaN, Done, IdNaN)
RowBlankTokens == Row(<<"T">>, ABCD, NaN, Aug26, NanToken, Blank, Done, IdNaN)

RowFiles ==
    {File("month.xlsx", TRUE, TRUE, <<RowMonth(c)>>) : c \in PlannedCells}
    \cup {File("row.xlsx", TRUE, TRUE, <<r>>) : r \in
            {RowBlankAmounts, RowBadBudget, RowNegative, RowOverspent, RowNameNaN,
             RowNameBlank, RowNameToken, RowNameNone, RowNoName, RowBadMonth, RowNoMonth,
             RowUpdate, RowUpdateRefs, RowSimilar, RowBlankTokens, RowFunder, RowRefs,
             RowExt1}}
    \cup {File("rows.xlsx", TRUE, TRUE, <<RowUpdate, RowBlankAmounts>>),
          File("rows.xlsx", TRUE, TRUE, <<RowBadMonth, RowFunder>>),
          File("rows.xlsx", TRUE, TRUE, <<RowFunder, RowUpdateRefs>>)}

\* the decisions and confirmations sent with a confirm
RowSkipSets == {{}, {2}}
RowCreateSets == {[funders |-> {}, clusters |-> {}], [funders |-> {FAO, FA}, clusters |-> {EF}]}

InitRows ==
    /\ db \in RowStores
    /\ session = [u \in Users |-> NoSession]
    /\ disk = <<>>
    /\ review = [u \in Users |-> "none"]
    /\ last = Response("none", "", "none", Acc(EmptyDb), "none")
    /\ run = [u \in Users |-> Idle]

NextRows ==
    \/ \E f \in RowFiles : Len(disk) < MaxRowUploads /\ Stage("u1", f)
    \/ \E sk \in RowSkipSets, c \in RowCreateSets : Confirm("u1", sk, c.funders, c.clusters)

SpecRows == InitRows /\ [][NextRows]_vars

\* a commit of u1's staged file with these decisions and confirmations ran to its end
Committed(sk, c) ==
    /\ HasStaged("u1")
    /\ last'.op = "confirm" /\ last'.outcome = "done"
    /\ Confirm("u1", sk, c.funders, c.clusters)

\* the Activities and the audit entries a step added to the store
NewActivities == (Len(db.activities) + 1)..Len(db'.activities)
NewAudit == (Len(db.audit) + 1)..Len(db'.audit)

\* C11: a row with one funder token that names no funder of the master data, committed
\* with that token in the confirmed-funder set and created, leaves a Funder of exactly
\* that name, a new Activity of the row associated with that Funder only, and exactly
\* one audit entry for that Activity.
C11_ConfirmedFunderIsCreated ==
    [][\A sk \in RowSkipSets, c \in RowCreateSets :
        Committed(sk, c)
        => \A i \in 1..Len(StagedFile("u1").rows) :
            \A p \in {q \in c.funders : cell_parts(StagedFile("u1").rows[i].funder) = <<q>>} :
                (funder_exact(db, p) = 0 /\ last'.report[i].outcome = "created")
                => /\ \E k \in 1..Len(db'.funders) : db'.funders[k].name = p
                   /\ \E a \in NewActivities :
                        /\ db'.activities[a].name = str(StagedFile("u1").rows[i].name)
                        /\ db'.activities[a].funders =
                              {db'.funders[k].code : k \in
                                  {j \in 1..Len(db'.funders) : db'.funders[j].name = p}}
                        /\ Cardinality({e \in NewAudit :
                              /\ db'.audit[e].action # "Upload finalized"
                              /\ db'.audit[e].object_repr = db'.activities[a].activity_id}) = 1]_vars

\* the Activity of the row "G" with funder token "FA" hangs on the funder FAO, no
\* funder is named "FA", and the audit trail holds two entries for one new Activity
C11_NoFunderOfThatName ==
    /\ last.op = "confirm" /\ last.outcome = "done" /\ last.created = 1
    /\ \E a \in 1..Len(db.activities) :
        /\ db.activities[a].name = <<"G">>
        /\ db.activities[a].funders = {FAO}
        /\ \E e1, e2 \in 1..Len(db.audit) :
            /\ e1 # e2
            /\ db.audit[e1].action = "Activity created"
            /\ db.audit[e2].action = "Activity created via upload"
            /\ db.audit[e1].object_repr = db.activities[a].activity_id
            /\ db.audit[e2].object_repr = db.activities[a].activity_id
    /\ \A k \in 1..Len(db.funders) : db.funders[k].name # FA

\* C12: a commit leaves the Funders and Clusters it found as they were, every Funder
\* it adds has a name of its confirmed-funder set, every Cluster it adds a name of its
\* confirmed-cluster set, and a commit with both sets empty adds none.
C12_OnlyConfirmedNamesCreated ==
    [][\A sk \in RowSkipSets, c \in RowCreateSets :
        (last'.op = "confirm" /\ Confirm("u1", sk, c.funders, c.clusters))
        => /\ SubSeq(db'.funders, 1, Len(db.funders)) = db.funders
           /\ SubSeq(db'.clusters, 1, Len(db.clusters)) = db.clusters
           /\ \A k \in (Len(db.funders) + 1)..Len(db'.funders) :
                db'.funders[k].name \in c.funders
           /\ \A k \in (Len(db.clusters) + 1)..Len(db'.clusters) :
                db'.clusters[k].full_name \in c.clusters
           /\ (c.funders = {} /\ c.clusters = {})
                => (db'.funders = db.funders /\ db'.clusters = db.clusters)]_vars

\* a commit made the cluster EF and the funder FAO, both confirmed with it
C12_Witness ==
    /\ last.op = "confirm" /\ last.outcome = "done"
    /\ \E k \in 1..Len(db.clusters) : db.clusters[k].full_name = EF
    /\ \E k \in 1..Len(db.funders) : db.funders[k].name = FAO
    /\ \E a \in 1..Len(db.activities) : db.activities[a].clusters = {EF}

ViaUpload == {"Activity created via upload", "Activity updated via upload"}

\* C13: a commit that ran appends as many created-via-upload and updated-via-upload
\* audit entries as it counts rows created and updated, each naming an Activity of the
\* store, and when every row was skipped or dropped with an error the only entry it
\* appends is the one of the batch.
C13_OneAuditEntryPerEffectedRow ==
    [][\A sk \in RowSkipSets, c \in RowCreateSets :
        Committed(sk, c)
        => /\ Cardinality({e \in NewAudit : db'.audit[e].action \in ViaUpload})
                = last'.created + last'.updated
           /\ \A e \in NewAudit :
                db'.audit[e].action \in ViaUpload
                => activity_by_id(db', db'.audit[e].object_repr) # 0
           /\ (\A i \in 1..Len(last'.report) :
                    last'.report[i].outcome \in {"skipped", "error"})
                => \A e \in NewAudit : db'.audit[e].action = "Upload finalized"]_vars

\* a commit updated one Activity, created another, and left one via-upload entry of
\* each kind
C13_Witness ==
    /\ last.op = "confirm" /\ last.outcome = "done"
    /\ last.created = 1 /\ last.updated = 1
    /\ \E e1, e2 \in 1..Len(db.audit) :
        /\ db.audit[e1].action = "Activity created via upload"
        /\ db.audit[e2].action = "Activity updated via upload"

\* the row carries an external identifier and the store has an Activity of it
RowMatches(d, r) ==
    /\ id_given(r.activity_id)
    /\ \E j \in 1..Len(d.activities) : d.activities[j].activity_id = id_of(r.activity_id)

\* the cluster of short name s is what the token p resolves to: it bears the name
\* (case-insensitively), or its short name contains the token's first four characters,
\* or it was made for the confirmed token
ClusterOfPart(d, s, p, confirmed) ==
    \E k \in 1..Len(d.clusters) :
        /\ d.clusters[k].short_name = s
        /\ \/ iexact(d.clusters[k].short_name, p)
           \/ iexact(d.clusters[k].full_name, p)
           \/ icontains(d.clusters[k].short_name, take(p, 4))
           \/ (d.clusters[k].full_name = p /\ p \in confirmed)

\* the same for the funder of code s
FunderOfPart(d, s, p, confirmed) ==
    \E k \in 1..Len(d.funders) :
        /\ d.funders[k].code = s
        /\ \/ iexact(d.funders[k].name, p)
           \/ icontains(d.funders[k].name, take(p, 4))
           \/ (d.funders[k].name = p /\ p \in confirmed)

\* what row r, updating the Activity a, must leave as a's associations: nothing for a
\* blank cell, else only entities its tokens resolve to, and among them every entity
\* that bore a token's name before the commit
AssociationsOverwritten(d, a, r, c) ==
    /\ is_blank(r.cluster) => a.clusters = {}
    /\ is_blank(r.funder) => a.funders = {}
    /\ ~is_blank(r.cluster) =>
        /\ \A s \in a.clusters : \E k \in 1..Len(cell_parts(r.cluster)) :
                ClusterOfPart(db', s, cell_parts(r.cluster)[k], c.clusters)
        /\ \A k \in 1..Len(cell_parts(r.cluster)) :
                cluster_exact(d, cell_parts(r.cluster)[k]) # 0
                => d.clusters[cluster_exact(d, cell_parts(r.cluster)[k])].short_name \in a.clusters
        /\ \A k \in 1..Len(cell_parts(r.cluster)) :
                cell_parts(r.cluster)[k] \in c.clusters
                => \E s \in a.clusters :
                        ClusterOfPart(db', s, cell_parts(r.cluster)[k], c.clusters)
    /\ ~is_blank(r.funder) =>
        /\ \A s \in a.funders : \E k \in 1..Len(cell_parts(r.funder)) :
                FunderOfPart(db', s, cell_parts(r.funder)[k], c.funders)
        /\ \A k \in 1..Len(cell_parts(r.funder)) :
                funder_exact(d, cell_parts(r.funder)[k]) # 0
                => d.funders[funder_exact(d, cell_parts(r.funder)[k])].code \in a.funders
        /\ \A k \in 1..Len(cell_parts(r.funder)) :
                cell_parts(r.funder)[k] \in c.funders
                => \E s \in a.funders :
                        FunderOfPart(db', s, cell_parts(r.funder)[k], c.funders)

\* C14: in a commit, the Activities of the store stay where they were with their
\* identifiers, and the store grows by exactly the rows counted as created; a row
\* whose identifier matches an Activity A is never counted as created, and when it is
\* counted as updated A's cluster and funder sets are afterwards exactly what the
\* row's cells resolve to (empty for blank cells); a row that matches no Activity is
\* never counted as updated.
C14_UpdateInPlaceOverwritesAssociations ==
    [][\A sk \in RowSkipSets, c \in RowCreateSets :
        Committed(sk, c)
        => /\ Len(db'.activities) = Len(db.activities) + last'.created
           /\ \A j \in 1..Len(db.activities) :
                db'.activities[j].activity_id = db.activities[j].activity_id
           /\ \A i \in 1..Len(StagedFile("u1").rows) :
                /\ RowMatches(db, StagedFile("u1").rows[i])
                   => last'.report[i].outcome # "created"
                /\ ~RowMatches(db', StagedFile("u1").rows[i])
                   => last'.report[i].outcome # "updated"
                /\ (/\ RowMatches(db, StagedFile("u1").rows[i])
                    /\ last'.report[i].outcome = "updated"
                    /\ \A i2 \in (i + 1)..Len(StagedFile("u1").rows) :
                            StagedFile("u1").rows[i2].activity_id
                                # StagedFile("u1").rows[i].activity_id)
                   => \A j \in 1..Len(db.activities) :
                        db.activities[j].activity_id = id_of(StagedFile("u1").rows[i].activity_id)
                        => AssociationsOverwritten(db, db'.activities[j],
                                                   StagedFile("u1").rows[i], c)]_vars

\* the commit updated the Activity Y26-000001, which had the cluster ABCD and the
\* funder FAO, from a row with blank Cluster and Funder cells, and created another
C14_Witness ==
    /\ last.op = "confirm" /\ last.outcome = "done"
    /\ last.updated = 1 /\ last.created = 1
    /\ Len(db.funders) = 1
    /\ Len(db.activities) = 2
    /\ db.activities[1].activity_id = ActId(26, 1)
    /\ db.activities[1].name = <<"A", "2">>
    /\ db.activities[1].clusters = {} /\ db.activities[1].funders = {}

\* every cell the blank-row test looks at is blank
EntirelyBlank(f, r) ==
    /\ is_blank(r.name) /\ planned_blank(row_planned(f, r)) /\ is_blank(r.status)
    /\ is_blank(r.budget) /\ is_blank(r.cluster) /\ is_blank(r.funder)

\* C15: in a commit, a row whose decision is skip is counted as skipped and no error
\* bears its row number; when every row of the file is skipped the Activities, Funders
\* and Clusters stay as they were and only the batch's audit entry is appended; a row
\* that is not blank and has no skip decision is not counted as skipped.
C15_SkippedRowIsLeftAlone ==
    [][\A sk \in RowSkipSets, c \in RowCreateSets :
        Committed(sk, c)
        => /\ \A i \in 1..Len(StagedFile("u1").rows) :
                /\ (i + 1) \in sk
                   => /\ last'.report[i].outcome = "skipped"
                      /\ last'.report[i].errs = 0
                      /\ \A e \in 1..Len(last'.errors) : last'.errors[e].row # i + 1
                /\ ((i + 1) \notin sk /\ ~EntirelyBlank(StagedFile("u1"), StagedFile("u1").rows[i]))
                   => last'.report[i].outcome # "skipped"
           /\ (\A i \in 1..Len(StagedFile("u1").rows) : (i + 1) \in sk)
                => /\ db'.activities = db.activities
                   /\ db'.funders = db.funders
                   /\ db'.clusters = db.clusters
                   /\ \A e \in NewAudit : db'.audit[e].action = "Upload finalized"]_vars

\* a commit skipped its only row: nothing was created, updated or reported, and the
\* Activity Y26-000001 is as it was
C15_Witness ==
    /\ last.op = "confirm" /\ last.outcome = "done"
    /\ Len(last.report) = 1 /\ last.skipped = 1 /\ last.errors = <<>>
    /\ last.created = 0 /\ last.updated = 0
    /\ Len(db.activities) = 1 /\ db.activities[1].name = <<"A">>
    /\ db.activities[1].clusters = {ABCD}
    /\ Len(db.clusters) = 1

\* C16: in a commit, a row that is not skipped and not entirely blank, whose Activity
\* Name is blank under the blank detection (null, NaN marker, whitespace only, or the
\* tokens nan / none), gets a row error and is counted as an error, and when it is the
\* file's only row the Activities stay as they were.
C16_BlankNameIsRowError ==
    [][\A sk \in RowSkipSets, c \in RowCreateSets :
        Committed(sk, c)
        => \A i \in 1..Len(StagedFile("u1").rows) :
            (/\ (i + 1) \notin sk
             /\ ~EntirelyBlank(StagedFile("u1"), StagedFile("u1").rows[i])
             /\ is_blank(StagedFile("u1").rows[i].name))
            => /\ last'.report[i].outcome = "error"
               /\ last'.report[i].errs > 0
               /\ Len(StagedFile("u1").rows) = 1 => db'.activities = db.activities]_vars

\* the store holds an Activity whose name is blank under the blank detection,
\* created by a commit that reported no error
C16_ActivityWithBlankName ==
    /\ last.op = "confirm" /\ last.outcome = "done"
    /\ last.created = 1 /\ last.errors = <<>>
    /\ \E a \in 1..Len(db.activities) : is_blank(db.activities[a].name)

\* the row errors of required-field validation: name, status, planned month
RequiredFieldErrors ==
    {"missing_name", "missing_status", "invalid_status", "invalid_date", "month_required"}

\* C17: when every row of a committed file is skipped or rejected by required-field
\* validation, the commit changes nothing in the store but its own batch record: the
\* Activities, Funders and Clusters are as before, whatever names were confirmed.
C17_RejectedRowMutatesNothing ==
    [][\A sk \in RowSkipSets, c \in RowCreateSets :
        (/\ Committed(sk, c)
         /\ \A i \in 1..Len(StagedFile("u1").rows) :
                \/ last'.report[i].outcome = "skipped"
                \/ \E e \in 1..Len(last'.errors) :
                        /\ last'.errors[e].row = i + 1
                        /\ last'.errors[e].kind \in RequiredFieldErrors)
        => /\ db'.activities = db.activities
           /\ db'.funders = db.funders
           /\ db'.clusters = db.clusters
           /\ \A e \in NewAudit : db'.audit[e].action = "Upload finalized"]_vars

\* a commit whose only row was rejected for its planned month has made the cluster EF
\* and the funder FAO
C17_MastersCreatedForRejectedRow ==
    /\ last.op = "confirm" /\ last.outcome = "done"
    /\ Len(last.report) = 1 /\ last.report[1].outcome = "error"
    /\ last.created = 0 /\ last.updated = 0
    /\ \E e \in 1..Len(last.errors) : last.errors[e].kind \in {"invalid_date", "month_required"}
    /\ Len(db.activities) = 1
    /\ \E k \in 1..Len(db.clusters) : db.clusters[k].full_name = EF
    /\ \E k \in 1..Len(db.funders) : db.funders[k].name = FAO

\* the cell is not blank and, commas and spaces aside, is neither an optionally signed
\* run of digits nor a lone sign
NonNumeric(val) ==
    /\ ~is_blank(val)
    /\ \E t \in {remove_chars(strip(str(val)), {",", " "})} :
        /\ t \notin {<<>>, <<"-">>}
        /\ ~all_digits(t)
        /\ ~(Head(t) = "-" /\ all_digits(Tail(t)))

ValidNewRow(d, f, r, c) ==
    /\ ~is_blank(r.name)
    /\ ~is_blank(r.status) /\ StatusInMaster(d, r.status)
    /\ parse_planned_month(row_planned(f, r)).ok
    /\ ~RowUnresolved(d, r, c.funders, c.clusters)
    /\ ~RowMatches(d, r)

\* C19: in a commit, a row that is not skipped, has blank Budget Amount and blank
\* Disbursed Amount and is otherwise valid is counted as created, no error bears its
\* row number, and the store has a new Activity of its name whose total budget and
\* disbursed amount are 0.
C19_BlankAmountsAreZero ==
    [][\A sk \in RowSkipSets, c \in RowCreateSets :
        Committed(sk, c)
        => \A i \in 1..Len(StagedFile("u1").rows) :
            (/\ (i + 1) \notin sk
             /\ is_blank(StagedFile("u1").rows[i].budget)
             /\ is_blank(StagedFile("u1").rows[i].disbursed)
             /\ ValidNewRow(db', StagedFile("u1"), StagedFile("u1").rows[i], c))
            => /\ last'.report[i].outcome = "created"
               /\ last'.report[i].errs = 0
               /\ \A e \in 1..Len(last'.errors) : last'.errors[e].row # i + 1
               /\ \E a \in NewActivities :
                    /\ db'.activities[a].name = str(StagedFile("u1").rows[i].name)
                    /\ db'.activities[a].total_budget = 0
                    /\ db'.activities[a].disbursed_amount = 0]_vars

\* a commit created, without any error, the Activity "T" from the row whose Budget
\* Amount is 'nan' and whose Disbursed Amount is ' ': both amounts are 0
C19_Witness ==
    /\ last.op = "confirm" /\ last.outcome = "done"
    /\ last.created = 1 /\ last.errors = <<>>
    /\ \E a \in 1..Len(db.activities) :
        /\ db.activities[a].name = <<"T">>
        /\ db.activities[a].total_budget = 0
        /\ db.activities[a].disbursed_amount = 0
        /\ db.activities[a].clusters = {ABCD}

\* the Gregorian calendar, as the claim words it
GregorianLeap(y) == (y % 4 = 0 /\ y % 100 # 0) \/ y % 400 = 0
DaysInMonth(y, m) ==
    IF m \in {1, 3, 5, 7, 8, 10, 12} THEN 31
    ELSE IF m \in {4, 6, 9, 11} THEN 30
    ELSE IF GregorianLeap(y) THEN 29 ELSE 28

\* the year a cell names: two-digit years 69..99 are 19xx and 0..68 are 20xx
FullYear(cell) ==
    IF cell.k # "mon_yy" THEN cell.yr
    ELSE IF cell.yr >= 69 THEN 1900 + cell.yr ELSE 2000 + cell.yr

\* the last day of the month a cell names
LastDayOfMonth(cell) ==
    Date(FullYear(cell), cell.mon, DaysInMonth(FullYear(cell), cell.mon))

Parses(cell) == cell.k \in {"mon_yy", "mon_yyyy", "date"}

\* C20: parsing 'Aug-26' gives 2026-08-31 and 'Feb-24' gives 2024-02-29; in a commit,
\* for every row counted as created or updated whose planned month parses, the parsed
\* value is the last day, under the Gregorian leap-year rule, of the month and year
\* the cell names, normalizing that date again gives the same date, and it is the
\* planned month stored on the Activity of the row.
C20_PlannedMonthIsLastDayOfMonth ==
    [][\A sk \in RowSkipSets, c \in RowCreateSets :
        Committed(sk, c)
        => /\ parse_planned_month(PlannedCell("mon_yy", 26, 8, 0)) = Date(2026, 8, 31)
           /\ parse_planned_month(PlannedCell("mon_yy", 24, 2, 0)) = Date(2024, 2, 29)
           /\ \A i \in 1..Len(StagedFile("u1").rows) :
                \A cell \in {row_planned(StagedFile("u1"), StagedFile("u1").rows[i])} :
                    (Parses(cell) /\ last'.report[i].outcome \in {"created", "updated"})
                    => /\ parse_planned_month(cell) = LastDayOfMonth(cell)
                       /\ compute_last_day_of_month(LastDayOfMonth(cell)) = LastDayOfMonth(cell)
                       /\ last'.report[i].outcome = "created"
                          => \E a \in NewActivities :
                                /\ db'.activities[a].name = str(StagedFile("u1").rows[i].name)
                                /\ db'.activities[a].planned_month = LastDayOfMonth(cell)
                                /\ db'.activities[a].year = FullYear(cell)
                       /\ last'.report[i].outcome = "updated"
                          => \A j \in 1..Len(db.activities) :
                                db.activities[j].activity_id
                                    = id_of(StagedFile("u1").rows[i].activity_id)
                                => db'.activities[j].planned_month = LastDayOfMonth(cell)]_vars

\* a commit created the Activity "M" from a row whose planned month is February 2024:
\* the stored planned month is 2024-02-29
C20_Witness ==
    /\ last.op = "confirm" /\ last.outcome = "done" /\ last.created = 1
    /\ \E a \in 1..Len(db.activities) :
        /\ db.activities[a].name = <<"M">>
        /\ db.activities[a].planned_month = Date(2024, 2, 29)

\* ------------------------------------------ the Summary (SpecSummary)

MaxSummaryUploads == 2

ABCDX == ABCD \o <<"X">>
abcd == lower(ABCD)

\* n clusters whose short names all contain "ABCD": ABCD, ABCD1, ABCD2, ...
ManyClusters(n) ==
    [i \in 1..n |->
        IF i = 1 THEN [short_name |-> ABCD, full_name |-> ABCD]
        ELSE [short_name |-> ABCD \o itoa(i - 1), full_name |-> ABCD \o itoa(i - 1)]]

ActivityB ==
    [activity_id |-> ActId(26, 2), name |-> <<"B">>, year |-> 2026, status |-> Done,
     planned_month |-> Date(2026, 8, 31), total_budget |-> 10, disbursed_amount |-> 0,
     funders |-> {}, clusters |-> {ABCD}]

\* the store before the upload: 1, 5 or 8 clusters alike, two funders alike, and the
\* Activities A and B of cluster ABCD and year 2026
SummaryStores ==
    {[EmptyDb EXCEPT !.statuses = {Done},
                     !.clusters = ManyClusters(n),
                     !.funders = <<[code |-> FAO, name |-> FAO],
                                   [code |-> FAO \o <<"1">>, name |-> FAO \o <<"1">>]>>,
                     !.activities = <<ActivityA, ActivityB>>] : n \in {1, 5, 8}}

\* rows carrying A's identifier: without a planned month, without a name, with B's
\* name, with A's own name
RowIdNoMonth == Row(<<"A">>, ABCD, NaN, PlannedNaN, Ten, NaN, Done, IdCell("id", 26, 1))
RowIdNoName == Row(NaN, ABCD, NaN, Aug26, Ten, NaN, Done, IdCell("id", 26, 1))
RowIdOther == Row(<<"B">>, ABCD, NaN, Aug26, Ten, NaN, Done, IdCell("id", 26, 1))
RowIdSelf == Row(<<"A">>, ABCD, NaN, Aug26, Ten, NaN, Done, IdCell("id", 26, 1))
\* B's name in lower case, no identifier
RowLikeB == Row(<<"b">>, ABCD, NaN, Aug26, Ten, NaN, Done, IdNaN)
\* two rows alike, the cluster written as its short name, and as "abcd"
RowTwin == Row(<<"D">>, ABCD, NaN, Aug26, Ten, NaN, Done, IdNaN)
RowTwinLower == Row(<<"D">>, abcd, NaN, Aug26, Ten, NaN, Done, IdNaN)
\* tokens that match nothing exactly: "ABCDX" and "FA" have similar entities, "EF" none
RowFuzzy == Row(<<"G">>, ABCDX, FA, Aug26, Ten, NaN, Done, IdNaN)
RowNew == Row(<<"N">>, EF, NaN, Aug26, Ten, NaN, Done, IdNaN)

SummaryFiles ==
    {File("one.xlsx", TRUE, TRUE, <<r>>) : r \in
        {RowIdNoMonth, RowIdNoName, RowIdOther, RowIdSelf, RowLikeB, RowFuzzy, RowNew}}
    \cup {File("twins.xlsx", TRUE, TRUE, <<RowTwin, RowTwin>>),
          File("twins.xlsx", TRUE, TRUE, <<RowTwinLower, RowTwinLower>>)}

SummarySkipSets == {{}, {3}}
SummaryCreateSets ==
    {[funders |-> {}, clusters |-> {}], [funders |-> {FA}, clusters |-> {ABCDX, EF}]}

InitSummary ==
    /\ db \in SummaryStores
    /\ session = [u \in Users |-> NoSession]
    /\ disk = <<>>
    /\ review = [u \in Users |-> "none"]
    /\ last = Response("none", "", "none", Acc(EmptyDb), "none")
    /\ run = [u \in Users |-> Idle]

NextSummary ==
    \/ \E f \in SummaryFiles : Len(disk) < MaxSummaryUploads /\ Stage("u1", f)
    \/ \E sk \in SummarySkipSets, c \in SummaryCreateSets :
            Confirm("u1", sk, c.funders, c.clusters)

SpecSummary == InitSummary /\ [][NextSummary]_vars

\* the row fails required-field validation: blank name, blank or unparseable planned
\* month, or a status that does not resolve
FailsRequired(d, f, r) ==
    \/ is_blank(r.name)
    \/ ~parse_planned_month(row_planned(f, r)).ok
    \/ IF is_blank(r.status) THEN ~HasDefaultStatus(d) ELSE ~StatusInMaster(d, r.status)

\* C21: in the Summary of a staged file, no row that fails required-field validation
\* is listed among the updates or among the duplicates.
C21_InvalidRowsAreNotClassified ==
    HasStaged("u1")
    => \A i \in 1..Len(StagedFile("u1").rows) :
        FailsRequired(db, StagedFile("u1"), StagedFile("u1").rows[i])
        => /\ (i + 1) \notin updates(db, StagedFile("u1"))
           /\ \A x \in duplicates(db, StagedFile("u1")) : x.row # i + 1

\* the staged file's only row has no planned month and carries the identifier of the
\* Activity Y26-000001: the Summary lists it as an update
C21_InvalidRowListedAsUpdate ==
    /\ HasStaged("u1")
    /\ StagedFile("u1").rows = <<RowIdNoMonth>>
    /\ review["u1"] = "ok"
    /\ summarize(db, StagedFile("u1")).updates = {2}

\* the Activity b matches the row by name, year and cluster: the same name
\* (case-insensitively), the year of the row's planned month, and, when the row names
\* clusters, one of them among b's clusters
MatchesByNameYearCluster(d, f, r, b) ==
    /\ ~is_blank(r.name)
    /\ parse_planned_month(row_planned(f, r)).ok
    /\ iexact(d.activities[b].name, strip(str(r.name)))
    /\ d.activities[b].year = parse_planned_month(row_planned(f, r)).y
    /\ ~is_blank(r.cluster)
        => \E k \in 1..Len(cell_parts(r.cluster)) :
            \E s \in d.activities[b].clusters :
                ClusterOfPart(d, s, cell_parts(r.cluster)[k], {})

\* C22: in the Summary of a staged file, a row listed as an update of the Activity A
\* is not listed as a duplicate of A, and is listed as a duplicate of every other
\* Activity that matches it by name, year and cluster.
C22_UpdateRowStillCheckedForDuplicates ==
    HasStaged("u1")
    => \A i \in 1..Len(StagedFile("u1").rows) :
        (i + 1) \in updates(db, StagedFile("u1"))
        => \A b \in 1..Len(db.activities) :
            IF db.activities[b].activity_id = id_of(StagedFile("u1").rows[i].activity_id)
            THEN [row |-> i + 1, existing_id |-> db.activities[b].activity_id]
                    \notin duplicates(db, StagedFile("u1"))
            ELSE MatchesByNameYearCluster(db, StagedFile("u1"), StagedFile("u1").rows[i], b)
                 => [row |-> i + 1, existing_id |-> db.activities[b].activity_id]
                        \in duplicates(db, StagedFile("u1"))

\* the staged row carries the identifier of Y26-000001 and the name, year and cluster
\* of Y26-000002: the Summary lists it as an update and lists no duplicate
C22_DuplicateOfOtherNotReported ==
    /\ HasStaged("u1")
    /\ StagedFile("u1").rows = <<RowIdOther>>
    /\ activity_by_id(db, ActId(26, 2)) # 0
    /\ db.activities[activity_by_id(db, ActId(26, 2))].name = <<"B">>
    /\ db.activities[activity_by_id(db, ActId(26, 2))].year = 2026
    /\ ABCD \in db.activities[activity_by_id(db, ActId(26, 2))].clusters
    /\ updates(db, StagedFile("u1")) = {2}
    /\ duplicates(db, StagedFile("u1")) = {}

\* the file is two rows without identifier, of one name and year, whose Cluster cells
\* share a token
Twins(f) ==
    /\ Len(f.rows) = 2
    /\ \A i \in 1..2 :
        /\ ~id_given(f.rows[i].activity_id)
        /\ ~is_blank(f.rows[i].name)
        /\ parse_planned_month(row_planned(f, f.rows[i])).ok
        /\ ~is_blank(f.rows[i].cluster)
    /\ iexact(strip(str(f.rows[1].name)), strip(str(f.rows[2].name)))
    /\ parse_planned_month(row_planned(f, f.rows[1])).y
            = parse_planned_month(row_planned(f, f.rows[2])).y
    /\ \E k1 \in 1..Len(cell_parts(f.rows[1].cluster)) :
        \E k2 \in 1..Len(cell_parts(f.rows[2].cluster)) :
            iexact(cell_parts(f.rows[1].cluster)[k1], cell_parts(f.rows[2].cluster)[k2])

\* C23: for a staged file of two such rows, a commit creates every row that is not
\* marked skip and skips the one that is, and whenever the store holds an Activity
\* that matches them by name, year and cluster the Summary lists both rows among the
\* duplicates.
C23_TwinRowsAreAdvisoryDuplicates ==
    [][(HasStaged("u1") /\ Twins(StagedFile("u1")))
        => /\ \A sk \in SummarySkipSets, c \in SummaryCreateSets :
                Committed(sk, c)
                => /\ \A i \in 1..2 :
                        last'.report[i].outcome
                            = IF (i + 1) \in sk THEN "skipped" ELSE "created"
                   /\ Len(db'.activities)
                        = Len(db.activities) + Cardinality({i \in 1..2 : (i + 1) \notin sk})
           /\ (\E b \in 1..Len(db.activities) :
                    MatchesByNameYearCluster(db, StagedFile("u1"), StagedFile("u1").rows[1], b))
                => {x.row : x \in duplicates(db, StagedFile("u1"))} = {2, 3}]_vars

\* after a commit created the two rows "D" of cluster "abcd" as Activities of the
\* cluster ABCD, the same file is staged again and its Summary lists no duplicate
C23_TwinsNotReported ==
    /\ HasStaged("u1")
    /\ StagedFile("u1").rows = <<RowTwinLower, RowTwinLower>>
    /\ Cardinality({b \in 1..Len(db.activities) :
            /\ db.activities[b].name = <<"D">>
            /\ db.activities[b].year = 2026
            /\ db.activities[b].clusters = {ABCD}}) = 2
    /\ duplicates(db, StagedFile("u1")) = {}

Min(a, b) == IF a < b THEN a ELSE b

\* how many clusters (by short name) and funders (by name) contain the first four
\* characters of the token, case-insensitively
ClustersAlike(d, p) ==
    Cardinality({k \in 1..Len(d.clusters) :
        contains(lower(d.clusters[k].short_name), lower(SubSeq(p, 1, Min(4, Len(p)))))})
FundersAlike(d, p) ==
    Cardinality({k \in 1..Len(d.funders) :
        contains(lower(d.funders[k].name), lower(SubSeq(p, 1, Min(4, Len(p)))))})

\* C24: in the Summary of a staged file, every unknown cluster token and every unknown
\* funder token is listed with min(5, n) suggestions, n being the number of master
\* entities whose name contains the token's first four characters.
C24_SuggestionsCappedAtFive ==
    HasStaged("u1")
    => /\ \A x \in unknown_clusters_details(db, StagedFile("u1")) :
            Len(x.suggestions) = Min(5, ClustersAlike(db, x.name))
       /\ \A x \in unknown_funders_details(db, StagedFile("u1")) :
            Len(x.suggestions) = Min(5, FundersAlike(db, x.name))

\* the staged row names the unknown cluster "ABCDX" while eight clusters contain
\* "ABCD": the Summary lists five suggestions for it, and two for the funder "FA"
C24_Witness ==
    /\ HasStaged("u1")
    /\ StagedFile("u1").rows = <<RowFuzzy>>
    /\ ClustersAlike(db, ABCDX) = 8
    /\ \E x \in unknown_clusters_details(db, StagedFile("u1")) :
            x.name = ABCDX /\ Len(x.suggestions) = 5
    /\ \E x \in unknown_funders_details(db, StagedFile("u1")) :
            x.name = FA /\ Len(x.suggestions) = 2

\* ------------------------------------------ status tokens (SpecStatus)

MaxStatusUploads == 2

\* Implementation Status cells: a name in another case with a trailing blank, a name
\* cut short, a name with a full stop, a name with a doubled inner blank, and the
\* blank cells
StatusSpaced == <<"d", "o", "n", "e", " ">>
StatusCut == <<"D", "o", "n">>
StatusStop == <<"D", "o", "n", "e", ".">>
StatusDoubled == <<"N", "O", "T", " ", " ", "i", "m", "p", "l", "e", "m", "e", "n", "t", "e", "d">>
StatusTokens == {StatusSpaced, StatusCut, StatusStop, StatusDoubled, NaN, Blank, <<"N", "o", "n", "e">>}

RowStatus(token) == Row(<<"S">>, NaN, NaN, Aug26, Ten, NaN, token, IdNaN)

StatusFiles ==
    {File("status.xlsx", TRUE, TRUE, <<RowStatus(t)>>) : t \in StatusTokens}
    \cup {File("two.xlsx", TRUE, TRUE, <<RowStatus(StatusSpaced), RowStatus(NaN)>>)}

StatusMasters == {Done, NotImplemented}

InitStatus ==
    /\ db \in {[EmptyDb EXCEPT !.statuses = S] : S \in SUBSET StatusMasters}
    /\ session = [u \in Users |-> NoSession]
    /\ disk = <<>>
    /\ review = [u \in Users |-> "none"]
    /\ last = Response("none", "", "none", Acc(EmptyDb), "none")
    /\ run = [u \in Users |-> Idle]

NextStatus ==
    \/ \E f \in StatusFiles : Len(disk) < MaxStatusUploads /\ Stage("u1", f)
    \/ Confirm("u1", {}, {}, {})
    \/ \E name \in StatusMasters : StatusCreate(name)
    \/ \E name \in StatusMasters : StatusDelete(name)

SpecStatus == InitStatus /\ [][NextStatus]_vars

\* the master statuses a status cell stands for: of a blank cell the default status
\* 'Not Implemented', of any other cell the statuses of the same name up to case and
\* runs of white space
StatusesMeant(d, token) ==
    IF is_blank(token) THEN {m \in d.statuses : lower(m) = lower(NotImplemented)}
    ELSE {m \in d.statuses : normalize_key(m) = normalize_key(token)}

\* C25: a status cell that is not blank resolves only to a master status of the same
\* name up to case and white space; a blank cell resolves to the default status when
\* there is one.  A commit is refused as hard-blocked exactly when some row's cell
\* resolves to nothing, and otherwise every row's Activity is saved with the status
\* its cell resolves to.
C25_StatusResolvesByNameOrDefault ==
    [][(HasStaged("u1") /\ last'.op = "confirm" /\ Confirm("u1", {}, {}, {}))
        => /\ (last'.outcome = "blocked")
                <=> \E i \in 1..Len(StagedFile("u1").rows) :
                        StatusesMeant(db, StagedFile("u1").rows[i].status) = {}
           /\ last'.outcome # "blocked"
                => /\ last'.outcome = "done"
                   /\ last'.errors = <<>>
                   /\ Cardinality(NewActivities) = Len(StagedFile("u1").rows)
                   /\ \A i \in 1..Len(StagedFile("u1").rows) :
                        db'.activities[Len(db.activities) + i].status
                            \in StatusesMeant(db, StagedFile("u1").rows[i].status)]_vars

\* the file with the cells "done " and NaN is committed while both master statuses
\* exist: its Activities have the statuses Done and Not Implemented
C25_Witness ==
    /\ last.op = "confirm" /\ last.outcome = "done"
    /\ db.batches # <<>> /\ db.batches[Len(db.batches)].file_name = "two.xlsx"
    /\ Len(db.activities) >= 2
    /\ db.activities[Len(db.activities) - 1].status = Done
    /\ db.activities[Len(db.activities)].status = NotImplemented

\* the rows of a response's report with the given outcome
RowsWith(resp, outcome) == {k \in 1..Len(resp.report) : resp.report[k].outcome = outcome}

\* C26: a commit that ran and returned has handled every data row once: the row was
\* created, updated, skipped, or dropped, the three counters count the rows of the
\* first three kinds, every dropped row has a message of its row number in the error
\* list, and the counters and the dropped rows add up to the rows of the file.
C26_OutcomesPartitionTheRows ==
    [][\A sk \in RowSkipSets, c \in RowCreateSets :
        Committed(sk, c)
        => /\ Len(last'.report) = Len(StagedFile("u1").rows)
           /\ \A k \in 1..Len(last'.report) :
                /\ last'.report[k].row = k + 1
                /\ last'.report[k].outcome \in {"created", "updated", "skipped", "error"}
                /\ last'.report[k].outcome = "error"
                    => \E e \in 1..Len(last'.errors) : last'.errors[e].row = k + 1
           /\ last'.created = Cardinality(RowsWith(last', "created"))
           /\ last'.created = Cardinality(NewActivities)
           /\ last'.updated = Cardinality(RowsWith(last', "updated"))
           /\ last'.skipped = Cardinality(RowsWith(last', "skipped"))
           /\ last'.created + last'.updated + last'.skipped
                + Cardinality(RowsWith(last', "error")) = Len(StagedFile("u1").rows)]_vars

\* a file of two rows was committed: the first was dropped with a message, the second
\* created
C26_Witness ==
    /\ last.op = "confirm" /\ last.outcome = "done"
    /\ Len(last.report) = 2
    /\ last.report[1].outcome = "error" /\ last.report[2].outcome = "created"
    /\ last.created = 1 /\ last.updated = 0 /\ last.skipped = 0
    /\ \E e \in 1..Len(last.errors) : last.errors[e].row = 2

\* ------------------- status changes during a confirm request (SpecRecheck)

MaxRecheckUploads == 2

\* Rows 607-648: the confirm request up to and including the test of the Summary it
\* computed from the staged file.  Passed, the request stands before
\* _process_dataframe; smap and dflt keep the status map and default status the
\* Summary was computed from.
RecheckBegin(u, skip_rows, create_funders, create_clusters) ==
    IF Proceeds(u)
    THEN /\ run[u].phase = "idle"
         /\ run' = [run EXCEPT ![u] =
                InFlight("checked", session[u].path, 1, 1, <<>>, <<>>, <<>>, <<>>, <<>>,
                         Acc(EmptyDb), status_map(db), default_status(db),
                         skip_rows, create_funders, create_clusters)]
         /\ UNCHANGED <<db, session, disk, review, last>>
    ELSE Confirm(u, skip_rows, create_funders, create_clusters)

\* Rows 645-680: _process_dataframe, which reads the status map and the default
\* status anew (rows 375-378), then the batch and the finally block
RecheckProcess(u) ==
    /\ run[u].phase = "checked"
    /\ \E f \in {disk[run[u].path].file} :
       \E acc \in {process_dataframe(db, f, u, run[u].skip_rows, run[u].create_funders,
                                     run[u].create_clusters)} :
       \E fin \in {finalize(acc.db, f, u)} :
            /\ db' = IF acc.crashed THEN acc.db ELSE fin.db
            /\ last' = Response("confirm", u,
                                IF acc.crashed \/ fin.raised THEN "raised" ELSE "done",
                                acc, review[u])
            /\ review' = [review EXCEPT ![u] = "none"]
            /\ session' = session_saved(session,
                              finally_block(session, disk, u, run[u].path, FALSE).session,
                              acc.crashed \/ fin.raised)
            /\ disk' = finally_block(session, disk, u, run[u].path, FALSE).disk
            /\ run' = [run EXCEPT ![u] = Idle]

NextRecheck ==
    \/ \E f \in StatusFiles : Len(disk) < MaxRecheckUploads /\ Stage("u1", f)
    \/ RecheckBegin("u1", {}, {}, {})
    \/ RecheckProcess("u1")
    \/ \E name \in StatusMasters : StatusCreate(name)
    \/ \E name \in StatusMasters : StatusDelete(name)

SpecRecheck == InitStatus /\ [][NextRecheck]_vars

\* the response lists a row dropped for its status
StatusErrors(resp) ==
    {e \in 1..Len(resp.errors) : resp.errors[e].kind \in {"invalid_status", "missing_status"}}

\* the master statuses the commit-time Summary of the request in progress saw
StatusesChecked(u) == {run[u].smap[k] : k \in DOMAIN run[u].smap}

\* C27: when the master statuses are, at the time the rows are processed, the ones
\* the commit-time check saw, no row is dropped with 'invalid Status' or 'missing
\* Implementation Status'; and whenever a row is dropped so, a status the check saw
\* has been removed since.
C27_NoStatusErrorAfterRecheck ==
    [][(run["u1"].phase = "checked" /\ RecheckProcess("u1"))
        => /\ db.statuses = StatusesChecked("u1") => StatusErrors(last') = {}
           /\ StatusErrors(last') # {} => StatusesChecked("u1") \ db.statuses # {}]_vars

\* a commit passed its check, the status its row names was deleted, and the row was
\* then dropped with 'invalid Status'
C27_Witness ==
    /\ last.op = "confirm" /\ last.outcome = "done"
    /\ \E e \in 1..Len(last.errors) : last.errors[e].kind = "invalid_status"
    /\ Done \notin db.statuses

\* ------------------------------------ generated identifiers (SpecIds)

MaxIdUploads == 2

\* the Activity Y26-000001 with a planned month of 2027, and new Activities of the
\* years 2026, 2000 and 2100
RowMove ==
    Row(<<"A">>, NaN, NaN, PlannedCell("mon_yy", 27, 8, 0), Ten, NaN, Done, IdCell("id", 26, 1))
RowNew26 == Row(<<"N">>, NaN, NaN, Aug26, Ten, NaN, Done, IdNaN)
RowNew2000 == Row(<<"P">>, NaN, NaN, PlannedCell("mon_yy", 0, 8, 0), Ten, NaN, Done, IdNaN)
RowNew2100 == Row(<<"Q">>, NaN, NaN, PlannedCell("mon_yyyy", 2100, 4, 0), Ten, NaN, Done, IdNaN)

IdFiles ==
    {File("id.xlsx", TRUE, TRUE, <<r>>) : r \in {RowMove, RowNew26, RowNew2000, RowNew2100}}
    \cup {File("ids.xlsx", TRUE, TRUE, <<RowNew26, RowMove>>)}

IdYears == {2000, 2026, 2027, 2100}

InitIds ==
    /\ db = [EmptyDb EXCEPT !.statuses = {Done},
                            !.clusters = <<[short_name |-> ABCD, full_name |-> ABCD]>>,
                            !.activities = <<ActivityA>>]
    /\ session = [u \in Users |-> NoSession]
    /\ disk = <<>>
    /\ review = [u \in Users |-> "none"]
    /\ last = Response("none", "", "none", Acc(EmptyDb), "none")
    /\ run = [u \in Users |-> Idle]

NextIds ==
    \/ \E f \in IdFiles : Len(disk) < MaxIdUploads /\ Stage("u1", f)
    \/ Confirm("u1", {}, {}, {})

SpecIds == InitIds /\ [][NextIds]_vars

\* C28: after any sequence of commits, the identifier that would be generated for a
\* new Activity of any year is the identifier of no Activity in the store.
C28_GeneratedIdentifierIsNew ==
    \A y \in IdYears : activity_by_id(db, generated_id(db, y)) = 0

\* the Activity Y26-000001 was moved to 2027 by an update, and the commit of a new
\* Activity of 2026 then created nothing: its row was dropped with 'failed to process
\* activity'
C28_CreateFailedOnIdentifier ==
    /\ last.op = "confirm" /\ last.outcome = "done"
    /\ last.created = 0
    /\ \E e \in 1..Len(last.errors) : last.errors[e].kind = "failed"
    /\ \E i \in 1..Len(db.activities) :
        db.activities[i].activity_id = ActId(26, 1) /\ db.activities[i].year = 2027
    /\ \A i \in 1..Len(db.activities) : db.activities[i].year # 2026

\* C29: an upload that cannot be read leaves no temporary file of its own, and leaves
\* the store, the session entries and the earlier temporary files as they were; a
\* confirm sent next by the same user acts on the file staged before: it is refused as
\* hard-blocked or commits that file.
C29_UnreadableUploadKeepsStagedFile ==
    [][\A u \in Users :
        /\ \A f \in StagingFiles :
            (~f.readable /\ last'.op = "stage" /\ Stage(u, f))
            => /\ last'.outcome = "read_error"
               /\ session' = session
               /\ db' = db
               /\ Len(disk') = Len(disk) + 1
               /\ ~exists(disk', Len(disk'))
               /\ \A p \in 1..Len(disk) : disk'[p] = disk[p]
        /\ \A sk \in SkipSets :
            (/\ last.op = "stage" /\ last.outcome = "read_error" /\ last.user = u
             /\ HasStaged(u) /\ last'.op = "confirm" /\ Confirm(u, sk, {}, {}))
            => /\ last'.outcome \in {"blocked", "done"}
               /\ last'.outcome = "done"
                    => /\ CommittedLast(db', StagedFile(u))
                       /\ Len(db'.batches) = Len(db.batches) + 1
                       /\ Len(last'.report) = Len(StagedFile(u).rows)]_vars

\* the user staged two.xlsx and then uploaded a file that cannot be read: two.xlsx
\* is still staged and on disk, and the second upload's temporary file is gone
C29_Witness ==
    /\ last.op = "stage" /\ last.outcome = "read_error" /\ last.user = "u1"
    /\ HasStaged("u1")
    /\ StagedFile("u1").name = "two.xlsx"
    /\ session["u1"].path = 1 /\ Len(disk) = 2
    /\ ~exists(disk, 2)

\* the clusters and funders of d named exactly like the token, up to case
ClustersNamed(d, p) ==
    {k \in 1..Len(d.clusters) :
        lower(d.clusters[k].short_name) = lower(p) \/ lower(d.clusters[k].full_name) = lower(p)}
FundersNamed(d, p) == {k \in 1..Len(d.funders) : lower(d.funders[k].name) = lower(p)}

\* the first cluster and the first funder whose name contains the token's first four
\* characters
FirstClusterAlike(d, p) ==
    CHOOSE k \in 1..Len(d.clusters) :
        /\ contains(lower(d.clusters[k].short_name), lower(SubSeq(p, 1, Min(4, Len(p)))))
        /\ \A j \in 1..(k - 1) :
            ~contains(lower(d.clusters[j].short_name), lower(SubSeq(p, 1, Min(4, Len(p)))))
FirstFunderAlike(d, p) ==
    CHOOSE k \in 1..Len(d.funders) :
        /\ contains(lower(d.funders[k].name), lower(SubSeq(p, 1, Min(4, Len(p)))))
        /\ \A j \in 1..(k - 1) :
            ~contains(lower(d.funders[j].name), lower(SubSeq(p, 1, Min(4, Len(p)))))

\* the tokens of a Cluster or Funder cell
Tokens(cell) ==
    IF is_blank(cell) THEN {} ELSE {cell_parts(cell)[k] : k \in 1..Len(cell_parts(cell))}

\* how many of the rows 1..i of the response's report were created
CreatedUpTo(resp, i) == Cardinality({k \in 1..i : resp.report[k].outcome = "created"})

\* ---------------------------------- similar master entities (SpecSimilar)

MaxSimilarUploads == 2

XY == <<"X", "Y">>

\* a row with two cluster tokens and two funder tokens: one of each is similar to a
\* master entity, the other to none
RowMixed == Row(<<"H">>, ABCDX \o <<",">> \o EF, FA \o <<";">> \o XY, Aug26, Ten, NaN, Done, IdNaN)

SimilarFiles ==
    {File("one.xlsx", TRUE, TRUE, <<r>>) : r \in {RowFuzzy, RowNew, RowMixed}}
    \cup {File("both.xlsx", TRUE, TRUE, <<RowNew, RowFuzzy>>)}

SimilarCreateSets ==
    {[funders |-> {}, clusters |-> {}], [funders |-> {FA, XY}, clusters |-> {ABCDX, EF}]}

NextSimilar ==
    \/ \E f \in SimilarFiles : Len(disk) < MaxSimilarUploads /\ Stage("u1", f)
    \/ \E c \in SimilarCreateSets : Confirm("u1", {}, c.funders, c.clusters)

SpecSimilar == InitSummary /\ [][NextSimilar]_vars

\* the messages of the given kind that the response has for the row number
RowErrors(resp, rn, kind) ==
    {e \in 1..Len(resp.errors) : resp.errors[e].row = rn /\ resp.errors[e].kind = kind}

\* C30: in a commit, every cluster or funder made new has the name of a token that
\* was confirmed and that matched no master entity exactly or by its first four
\* characters; the Activity created from a row carries, for every token of the row
\* with no exact match but a similar master entity, the first such entity; and the
\* row has a message only for each token that matched nothing and was not confirmed.
C30_SimilarEntityIsUsedNotCreated ==
    [][\A c \in SimilarCreateSets :
        Committed({}, c)
        => /\ \A k \in (Len(db.clusters) + 1)..Len(db'.clusters) :
                /\ db'.clusters[k].full_name \in c.clusters
                /\ ClustersNamed(db, db'.clusters[k].full_name) = {}
                /\ ClustersAlike(db, db'.clusters[k].full_name) = 0
           /\ \A k \in (Len(db.funders) + 1)..Len(db'.funders) :
                /\ db'.funders[k].name \in c.funders
                /\ FundersNamed(db, db'.funders[k].name) = {}
                /\ FundersAlike(db, db'.funders[k].name) = 0
           /\ \A i \in 1..Len(StagedFile("u1").rows) :
                last'.report[i].outcome = "created"
                => /\ \A p \in Tokens(StagedFile("u1").rows[i].cluster) :
                        (ClustersNamed(db, p) = {} /\ ClustersAlike(db, p) > 0)
                        => db.clusters[FirstClusterAlike(db, p)].short_name
                                \in db'.activities[Len(db.activities)
                                        + CreatedUpTo(last', i)].clusters
                   /\ \A p \in Tokens(StagedFile("u1").rows[i].funder) :
                        (FundersNamed(db, p) = {} /\ FundersAlike(db, p) > 0)
                        => db.funders[FirstFunderAlike(db, p)].code
                                \in db'.activities[Len(db.activities)
                                        + CreatedUpTo(last', i)].funders
                   /\ Cardinality(RowErrors(last', i + 1, "unknown_cluster"))
                        = Cardinality({p \in Tokens(StagedFile("u1").rows[i].cluster) :
                            /\ ClustersNamed(db, p) = {} /\ ClustersAlike(db, p) = 0
                            /\ p \notin c.clusters})
                   /\ Cardinality(RowErrors(last', i + 1, "unknown_funder"))
                        = Cardinality({p \in Tokens(StagedFile("u1").rows[i].funder) :
                            /\ FundersNamed(db, p) = {} /\ FundersAlike(db, p) = 0
                            /\ p \notin c.funders})]_vars

\* the row with the cluster token "ABCDX" and the funder token "FA" was committed
\* while eight clusters contain "ABCD" and two funders contain "FA": its Activity has
\* the cluster ABCD and the funder FAO, nothing was added to the master data, and
\* the commit left no message
C30_Witness ==
    /\ last.op = "confirm" /\ last.outcome = "done"
    /\ last.created = 1 /\ last.errors = <<>>
    /\ Len(db.clusters) = 8 /\ Len(db.funders) = 2
    /\ db.batches # <<>> /\ db.batches[Len(db.batches)].file_name = "one.xlsx"
    /\ db.activities[Len(db.activities)].name = <<"G">>
    /\ db.activities[Len(db.activities)].clusters = {ABCD}
    /\ db.activities[Len(db.activities)].funders = {FAO}

====
